---------------------------- MODULE Spec2Model ----------------------------
(***************************************************************************)
(* Model of the Golomb / BitStream codecs of trabalho2 (golomb.cpp,        *)
(* audio_codec.cpp, image_codec.cpp) and of the bit-stream tools of        *)
(* trabalho1.  bit_stream.h is not among the sources: BitStream is         *)
(* modelled from section 4.1 of the specification.                         *)
(***************************************************************************)
EXTENDS Integers, Sequences, FiniteSets, TLC

VARIABLES
    pc,     \* position of the driver program
    err,    \* exception that ended the run ("none" while none was thrown)
    g,      \* the Golomb object: [alive, m, mode]
    bs,     \* the BitStream in use, with the fstream it is bound to
    data,   \* values handed to the encoder (ex3.cpp: data)
    out,    \* values returned by the decoder (ex3.cpp: decoded_data)
    call,   \* the last Golomb constructor / set_m call: [op, arg, before, exc]
    file,   \* bytes of the file left by the writer once it is closed
    marks,  \* bit positions after each write (w) and after each read (r)
    codec,  \* the AudioCodec / ImageCodec object: [m_fixed_m, m_adaptive]
    hdr,    \* codec_h, the CodecHeader local of encode() / decode()
    loc,    \* the other locals of encode() / decode() that outlive a block
    infile  \* the file handed to the decoder: [hdr, bytes]

vars == <<pc, err, g, bs, data, out, call, file, marks, codec, hdr, loc, infile>>

\* the state of the codec classes, untouched by the coder drivers
codecVars == <<codec, hdr, loc, infile>>

----------------------------------------------------------------------------
(* Bounds of the model *)

\* largest small Golomb parameter tried (all of 1..MaxM are tried)
MaxM == 6
\* unsigned values 0..MaxN are coded with the small parameters
MaxN == 13
\* signed values -MaxAbs..MaxAbs are coded by the signed driver
MaxAbs == 2
\* number of values a driver run encodes
MaxLen == 3
\* widest field written by the BitStream driver
MaxWidth == 3
\* number of fields written by the BitStream driver
MaxFields == 4
\* frames per audio block (AudioCodec::BLOCK_SIZE is 4096, scaled down)
BLOCK_SIZE == 2
\* longest audio input, in frames: a full block and a one-frame tail
MaxFrames == 3

----------------------------------------------------------------------------
(* Arithmetic helpers *)

RECURSIVE Pow2(_)
Pow2(k) == IF k <= 0 THEN 1 ELSE 2 * Pow2(k - 1)

\* bit i (0 = least significant) of a non-negative value below 2^31:
\* (value >> i) & 1
BitOf(value, i) == IF i >= 31 THEN 0 ELSE (value \div Pow2(i)) % 2

Abs(x) == IF x < 0 THEN -x ELSE x

Min(a, b) == IF a < b THEN a ELSE b

Max(a, b) == IF a > b THEN a ELSE b

\* (int)std::ceil(std::log2((double)m)) for m >= 1
RECURSIVE CeilLog2(_)
CeilLog2(m) == IF m <= 1 THEN 0 ELSE 1 + CeilLog2((m + 1) \div 2)

----------------------------------------------------------------------------
(* BitStream (specification section 4.1) *)

EOF == -1

STREAM_WRITE == "STREAM_WRITE"

STREAM_READ == "STREAM_READ"

\* an fstream: the bytes of the file and the get position
NewFile(bytes) == [bytes |-> bytes, pos |-> 0]

\* BitStream bs(fs, rw): one-byte buffer, count of valid bits, EOS flag
BitStream(fs, rw) ==
    [rw |-> rw, buffer |-> 0, count |-> 0, eos |-> FALSE, open |-> TRUE, fs |-> fs]

\* append one bit; a full buffer is written to the sink and reset
write_bit(s, b) ==
    LET buf == s.buffer * 2 + b
        cnt == s.count + 1
    IN  IF cnt = 8
        THEN [s EXCEPT !.buffer = 0, !.count = 0,
                       !.fs.bytes = Append(@, buf)]
        ELSE [s EXCEPT !.buffer = buf, !.count = cnt]

\* write_n_bits emitting the least significant bit first
RECURSIVE write_n_bits_lsb_first(_, _, _)
write_n_bits_lsb_first(s, value, n) ==
    IF n <= 0 THEN s
    ELSE write_n_bits_lsb_first(write_bit(s, value % 2), value \div 2, n - 1)

\* the n least significant bits of value, most significant first
RECURSIVE write_n_bits(_, _, _)
write_n_bits(s, value, n) ==
    IF n <= 0 THEN s
    ELSE CHOOSE t \in {write_n_bits(s1, value, n - 1) :
                           s1 \in {write_bit(s, BitOf(value, n - 1))}} : TRUE

\* next bit MSB-first; refill from the source; EOF sentinel at end of source
read_bit(s) ==
    IF s.count > 0
    THEN [bs |-> [s EXCEPT !.count = @ - 1], bit |-> BitOf(s.buffer, s.count - 1)]
    ELSE IF s.fs.pos >= Len(s.fs.bytes)
         THEN [bs |-> [s EXCEPT !.eos = TRUE], bit |-> EOF]
         ELSE LET byte == s.fs.bytes[s.fs.pos + 1]
              IN  [bs |-> [s EXCEPT !.buffer = byte, !.count = 7, !.fs.pos = @ + 1],
                   bit |-> BitOf(byte, 7)]

\* n bits MSB-first assembled into an unsigned integer; bits past the end
\* of the stream are zero
RECURSIVE read_n_bits_acc(_, _, _)
read_n_bits_acc(s, n, acc) ==
    IF n <= 0 THEN [bs |-> s, val |-> acc]
    ELSE CHOOSE t \in
             {read_n_bits_acc(x.bs, n - 1, x.acc) :
                x \in {LET rb == read_bit(s)
                           b  == IF rb.bit = EOF THEN 0 ELSE rb.bit
                       IN  [bs |-> rb.bs, acc |-> acc * 2 + b]}} : TRUE

read_n_bits(s, n) == read_n_bits_acc(s, n, 0)

\* close flushing the pending bits without shifting them to the high positions
close_unshifted(s) ==
    IF ~s.open THEN s
    ELSE IF s.rw = STREAM_WRITE
         THEN IF s.count > 0
              THEN [s EXCEPT !.fs.bytes = Append(@, s.buffer),
                             !.buffer = 0, !.count = 0, !.open = FALSE]
              ELSE [s EXCEPT !.open = FALSE]
         ELSE [s EXCEPT !.buffer = 0, !.count = 0, !.open = FALSE]

\* close emitting the buffer whatever it holds and whatever was closed before
close_always_flushes(s) ==
    IF s.rw = STREAM_WRITE
    THEN [s EXCEPT !.fs.bytes = Append(@, s.buffer * Pow2(8 - s.count)),
                   !.buffer = 0, !.count = 0, !.open = FALSE]
    ELSE [s EXCEPT !.buffer = 0, !.count = 0, !.open = FALSE]

\* writer: flush the pending bits zero-padded in the low positions;
\* reader: drop the buffer; a second close does nothing
close(s) ==
    IF ~s.open THEN s
    ELSE IF s.rw = STREAM_WRITE
         THEN IF s.count > 0
              THEN [s EXCEPT !.fs.bytes = Append(@, s.buffer * Pow2(8 - s.count)),
                             !.buffer = 0, !.count = 0, !.open = FALSE]
              ELSE [s EXCEPT !.open = FALSE]
         ELSE [s EXCEPT !.buffer = 0, !.count = 0, !.open = FALSE]

\* bits a reader has consumed, bits a writer has emitted
BitsDone(s) ==
    IF s.rw = STREAM_READ THEN 8 * s.fs.pos - s.count
    ELSE 8 * Len(s.fs.bytes) + s.count

----------------------------------------------------------------------------
(* Golomb (golomb.h, golomb.cpp) *)

SIGN_AND_MAGNITUDE == "SIGN_AND_MAGNITUDE"

INTERLEAVING == "INTERLEAVING"

NegativeHandling == {SIGN_AND_MAGNITUDE, INTERLEAVING}

NoGolomb == [alive |-> FALSE, m |-> 0, mode |-> INTERLEAVING]

\* Golomb::Golomb: the object exists only if the constructor returns
GolombNew(m, mode) ==
    IF m <= 0 THEN [obj |-> NoGolomb, exc |-> "invalid_argument"]
    ELSE [obj |-> [alive |-> TRUE, m |-> m, mode |-> mode], exc |-> "none"]

\* set_m assigning before it checks
set_m_assigns_first(gol, m) ==
    IF m <= 0 THEN [obj |-> [gol EXCEPT !.m = m], exc |-> "invalid_argument"]
    ELSE [obj |-> [gol EXCEPT !.m = m], exc |-> "none"]

\* Golomb::set_m: the check precedes the assignment
set_m(gol, m) ==
    IF m <= 0 THEN [obj |-> gol, exc |-> "invalid_argument"]
    ELSE [obj |-> [gol EXCEPT !.m = m], exc |-> "none"]

get_m(gol) == gol.m

RECURSIVE write_unary(_, _)
write_unary(n, s) ==
    IF n <= 0 THEN write_bit(s, 1)
    ELSE CHOOSE t \in {write_unary(n - 1, s1) : s1 \in {write_bit(s, 0)}} : TRUE

RECURSIVE read_unary_acc(_, _)
read_unary_acc(s, n) ==
    CHOOSE t \in
        {IF rb.bit = 0 THEN read_unary_acc(rb.bs, n + 1)
         ELSE IF rb.bit = EOF
              THEN [bs |-> rb.bs, val |-> 0, exc |-> "runtime_error"]
              ELSE [bs |-> rb.bs, val |-> n, exc |-> "none"] :
            rb \in {read_bit(s)}} : TRUE

read_unary(s) == read_unary_acc(s, 0)

\* encode_unsigned taking the short remainder for r <= cutoff
encode_unsigned_cutoff_inclusive(m, n, s) ==
    IF m = 1 THEN write_unary(n, s)
    ELSE LET q      == n \div m
             r      == n % m
             s1     == write_unary(q, s)
             b      == CeilLog2(m)
             cutoff == Pow2(b) - m
         IN  IF r <= cutoff THEN write_n_bits(s1, r, b - 1)
             ELSE write_n_bits(s1, r + cutoff, b)

\* encode_unsigned writing the long remainder as r, not r + cutoff
encode_unsigned_no_offset(m, n, s) ==
    IF m = 1 THEN write_unary(n, s)
    ELSE LET q      == n \div m
             r      == n % m
             s1     == write_unary(q, s)
             b      == CeilLog2(m)
             cutoff == Pow2(b) - m
         IN  IF r < cutoff THEN write_n_bits(s1, r, b - 1)
             ELSE write_n_bits(s1, r, b)

encode_unsigned(m, n, s) ==
    IF m = 1 THEN write_unary(n, s)
    ELSE LET q      == n \div m
             r      == n % m
             b      == CeilLog2(m)
             cutoff == Pow2(b) - m
         IN  CHOOSE t \in {IF r < cutoff THEN write_n_bits(s1, r, b - 1)
                           ELSE write_n_bits(s1, r + cutoff, b) :
                              s1 \in {write_unary(q, s)}} : TRUE

\* decode_unsigned with the long remainder taken as r_full, not r_full - cutoff
decode_unsigned_keeps_cutoff(m, s) ==
    IF m = 1 THEN read_unary(s)
    ELSE LET u == read_unary(s)
         IN  IF u.exc # "none" THEN u
             ELSE LET q      == u.val
                      b      == CeilLog2(m)
                      cutoff == Pow2(b) - m
                      h      == read_n_bits(u.bs, b - 1)
                      r_head == h.val
                  IN  IF r_head < cutoff
                      THEN [bs |-> h.bs, val |-> q * m + r_head, exc |-> "none"]
                      ELSE LET t == read_bit(h.bs)
                           IN  IF t.bit = EOF
                               THEN [bs |-> t.bs, val |-> 0, exc |-> "runtime_error"]
                               ELSE [bs |-> t.bs,
                                     val |-> q * m + (r_head * 2 + t.bit),
                                     exc |-> "none"]

\* decode_unsigned from int r_tail = bs.read_bit() on; t is what read_bit returned
decode_unsigned_tail(m, q, r_head, cutoff, t) ==
    IF t.bit = EOF
    THEN [bs |-> t.bs, val |-> 0, exc |-> "runtime_error"]
    ELSE [bs |-> t.bs, val |-> q * m + ((r_head * 2 + t.bit) - cutoff), exc |-> "none"]

\* decode_unsigned from r_head = bs.read_n_bits(b - 1) on; h is what
\* read_n_bits returned
decode_unsigned_head(m, q, cutoff, h) ==
    IF h.val < cutoff
    THEN [bs |-> h.bs, val |-> q * m + h.val, exc |-> "none"]
    ELSE CHOOSE d \in {decode_unsigned_tail(m, q, h.val, cutoff, t) :
                           t \in {read_bit(h.bs)}} : TRUE

\* decode_unsigned from q = read_unary(bs) on; u is what read_unary returned
decode_unsigned_quotient(m, u) ==
    IF u.exc # "none" THEN u
    ELSE CHOOSE d \in {decode_unsigned_head(m, u.val, Pow2(CeilLog2(m)) - m, h) :
                           h \in {read_n_bits(u.bs, CeilLog2(m) - 1)}} : TRUE

decode_unsigned(m, s) ==
    IF m = 1 THEN read_unary(s)
    ELSE CHOOSE d \in {decode_unsigned_quotient(m, u) : u \in {read_unary(s)}} : TRUE

\* encode with the interleaving of the other convention: n > 0 to 2n - 1,
\* n <= 0 to -2n
encode_positive_odd(gol, n, s) ==
    IF gol.mode = INTERLEAVING
    THEN LET mapped_n == IF n > 0 THEN 2 * n - 1 ELSE -2 * n
         IN  encode_unsigned(gol.m, mapped_n, s)
    ELSE LET sign_bit == IF n < 0 THEN 1 ELSE 0
         IN  encode_unsigned(gol.m, Abs(n), write_bit(s, sign_bit))

\* Golomb::encode
encode(gol, n, s) ==
    IF gol.mode = INTERLEAVING
    THEN LET mapped_n == IF n >= 0 THEN 2 * n ELSE -2 * n - 1
         IN  encode_unsigned(gol.m, mapped_n, s)
    ELSE LET sign_bit == IF n < 0 THEN 1 ELSE 0
         IN  encode_unsigned(gol.m, Abs(n), write_bit(s, sign_bit))

\* decode with the odd branch of the interleaving inverse as -(u / 2)
decode_odd_off_by_one(gol, s) ==
    IF gol.mode = INTERLEAVING
    THEN LET d == decode_unsigned(gol.m, s)
         IN  IF d.exc # "none" THEN d
             ELSE IF d.val % 2 = 0
                  THEN [d EXCEPT !.val = d.val \div 2]
                  ELSE [d EXCEPT !.val = -(d.val \div 2)]
    ELSE LET sb == read_bit(s)
         IN  IF sb.bit = EOF
             THEN [bs |-> sb.bs, val |-> 0, exc |-> "runtime_error"]
             ELSE LET d == decode_unsigned(gol.m, sb.bs)
                  IN  IF d.exc # "none" THEN d
                      ELSE IF sb.bit = 1 THEN [d EXCEPT !.val = -d.val]
                           ELSE d

\* Golomb::decode
decode(gol, s) ==
    IF gol.mode = INTERLEAVING
    THEN CHOOSE x \in
             {IF d.exc # "none" THEN d
              ELSE IF d.val % 2 = 0
                   THEN [d EXCEPT !.val = d.val \div 2]
                   ELSE [d EXCEPT !.val = -((d.val + 1) \div 2)] :
                 d \in {decode_unsigned(gol.m, s)}} : TRUE
    ELSE LET sb == read_bit(s)
         IN  IF sb.bit = EOF
             THEN [bs |-> sb.bs, val |-> 0, exc |-> "runtime_error"]
             ELSE LET d == decode_unsigned(gol.m, sb.bs)
                  IN  IF d.exc # "none" THEN d
                      ELSE IF sb.bit = 1 THEN [d EXCEPT !.val = -d.val]
                           ELSE d

----------------------------------------------------------------------------
(* State shared by the driver programs *)

NoCall == [op |-> "none", arg |-> 0, before |-> NoGolomb, exc |-> "none"]

NoMarks == [w |-> <<>>, r |-> <<>>]

NoStream == BitStream(NewFile(<<>>), STREAM_WRITE)

NoCodec == [m_fixed_m |-> 0, m_adaptive |-> FALSE]

NoHeader == [magic |-> "none"]

NoLocals == [pred_l |-> 0]

NoFile == [hdr |-> NoHeader, bytes |-> <<>>]

\* no codec object exists in the coder drivers
CodecIdle ==
    /\ codec = NoCodec
    /\ hdr = NoHeader
    /\ loc = NoLocals
    /\ infile = NoFile

\* the i-th bit (1-based, MSB-first) of a byte sequence
FileBit(bytes, i) == BitOf(bytes[((i - 1) \div 8) + 1], 7 - ((i - 1) % 8))

\* the bits a writer has emitted so far, in emission order
Emitted(s) ==
    [i \in 1..BitsDone(s) |->
        IF i <= 8 * Len(s.fs.bytes) THEN FileBit(s.fs.bytes, i)
        ELSE BitOf(s.buffer, BitsDone(s) - i)]

IsPrefix(a, b) == Len(a) <= Len(b) /\ SubSeq(b, 1, Len(a)) = a

----------------------------------------------------------------------------
(* Driver of the private unsigned coder: encode_unsigned, close,           *)
(* decode_unsigned with the same m                                         *)

\* the parameter at the top of the range of the round-trip law
TopM == Pow2(16) - 1

SmallMs == 1..MaxM

UnsignedMs == SmallMs \cup {255, 256, 257, TopM}

\* values tried with parameter m: every small one, and for a large m the
\* values around the remainder cutoff and one with quotient 16 (for TopM
\* that is 2^20 - 1, the top of the law's range)
UnsignedNs(m) ==
    IF m <= MaxM THEN 0..MaxN
    ELSE {0, 1, Pow2(CeilLog2(m)) - m, m - 1, m, 2 * m + 1, 16 * m + 15}

InitU ==
    /\ CodecIdle
    /\ pc = "u_encode"
    /\ err = "none"
    /\ g \in {[alive |-> TRUE, m |-> m, mode |-> INTERLEAVING] : m \in UnsignedMs}
    /\ bs = NoStream
    /\ data = <<>>
    /\ out = <<>>
    /\ call = NoCall
    /\ file = <<>>
    /\ marks = NoMarks

UEncode ==
    /\ pc = "u_encode"
    /\ Len(data) < 2
    /\ \E n \in UnsignedNs(g.m) :
          /\ bs' = encode_unsigned(g.m, n, bs)
          /\ data' = Append(data, n)
    /\ marks' = [marks EXCEPT !.w = Append(@, BitsDone(bs'))]
    /\ UNCHANGED <<pc, err, g, out, call, file>>
    /\ UNCHANGED codecVars

UClose ==
    /\ pc = "u_encode"
    /\ Len(data) > 0
    /\ file' = close(bs).fs.bytes
    /\ bs' = BitStream(NewFile(file'), STREAM_READ)
    /\ pc' = "u_decode"
    /\ UNCHANGED <<err, g, data, out, call, marks>>
    /\ UNCHANGED codecVars

UDecode ==
    /\ pc = "u_decode"
    /\ Len(out) < Len(data)
    /\ LET d == decode_unsigned(g.m, bs)
       IN  IF d.exc # "none"
           THEN /\ err' = d.exc
                /\ pc' = "u_failed"
                /\ bs' = d.bs
                /\ UNCHANGED <<out, marks>>
           ELSE /\ out' = Append(out, d.val)
                /\ bs' = d.bs
                /\ marks' = [marks EXCEPT !.r = Append(@, BitsDone(d.bs))]
                /\ UNCHANGED <<pc, err>>
    /\ UNCHANGED <<g, data, call, file>>
    /\ UNCHANGED codecVars

UFinish ==
    /\ pc = "u_decode"
    /\ Len(out) = Len(data)
    /\ bs' = close(bs)
    /\ pc' = "u_done"
    /\ UNCHANGED <<err, g, data, out, call, file, marks>>
    /\ UNCHANGED codecVars

NextU == UEncode \/ UClose \/ UDecode \/ UFinish

SpecUnsigned == InitU /\ [][NextU]_vars

\* C1: Golomb unsigned round-trip.  For every m and n tried, decoding the
\* closed stream with the same m returns each n that was written, and after
\* each value the reader has consumed exactly the bits the writer had
\* emitted after that value; no decode of an intact stream throws.
UnsignedRoundTrip ==
    pc \in {"u_decode", "u_done", "u_failed"} =>
        /\ err = "none"
        /\ \A i \in 1..Len(out) : out[i] = data[i] /\ marks.r[i] = marks.w[i]
        /\ pc = "u_done" => out = data

\* a truncated-binary code word of each length was decoded at the top m
UnsignedRoundTripWitness ==
    /\ pc = "u_done"
    /\ g.m = TopM
    /\ out = <<Pow2(20) - 1, 0>>
    /\ marks.r = <<33, 49>>

\* two values were decoded with a small m that is no power of two
UnsignedSmallWitness ==
    pc = "u_done" /\ g.m = 5 /\ out = <<MaxN, 2>>

----------------------------------------------------------------------------
(* Driver of the signed coder (ex3.cpp, test_coding): construct, encode    *)
(* the data, close the writer, reopen the file, decode as many values.     *)
(* The coder may be re-parameterised with set_m before the first value,    *)
(* and the file may lose its last byte before it is read back.             *)

Values == (-MaxAbs)..MaxAbs

\* parameters handed to the constructor and to set_m
TriedMs == (-1)..MaxM

Init ==
    /\ CodecIdle
    /\ pc = "start"
    /\ err = "none"
    /\ g = NoGolomb
    /\ bs = NoStream
    /\ data = <<>>
    /\ out = <<>>
    /\ call = NoCall
    /\ file = <<>>
    /\ marks = NoMarks

\* Golomb g(m, mode) after opening the write stream (ex3.cpp 13-18)
Construct ==
    /\ pc = "start"
    /\ \E m \in TriedMs, mode \in NegativeHandling :
          LET c == GolombNew(m, mode)
          IN  /\ g' = c.obj
              /\ call' = [op |-> "Golomb", arg |-> m, before |-> g, exc |-> c.exc]
              /\ err' = c.exc
              /\ pc' = IF c.exc = "none" THEN "encoding" ELSE "failed"
    /\ UNCHANGED <<bs, data, out, file, marks>>
    /\ UNCHANGED codecVars

\* g.set_m(m); a caller that catches the exception goes on with the object
SetM ==
    /\ pc = "encoding"
    /\ data = <<>>
    /\ \E m \in TriedMs :
          LET c == set_m(g, m)
          IN  /\ g' = c.obj
              /\ call' = [op |-> "set_m", arg |-> m, before |-> g, exc |-> c.exc]
    /\ UNCHANGED <<pc, err, bs, data, out, file, marks>>
    /\ UNCHANGED codecVars

\* g.encode(val, bs_write) (ex3.cpp 21-24)
Encode ==
    /\ pc = "encoding"
    /\ Len(data) < MaxLen
    /\ \E n \in Values :
          /\ bs' = encode(g, n, bs)
          /\ data' = Append(data, n)
    /\ marks' = [marks EXCEPT !.w = Append(@, BitsDone(bs'))]
    /\ call' = NoCall
    /\ UNCHANGED <<pc, err, g, out, file>>
    /\ UNCHANGED codecVars

\* bs_write.close() (ex3.cpp 26)
CloseWriter ==
    /\ pc = "encoding"
    /\ bs' = close(bs)
    /\ file' = bs'.fs.bytes
    /\ pc' = "closed"
    /\ call' = NoCall
    /\ UNCHANGED <<err, g, data, out, marks>>
    /\ UNCHANGED codecVars

\* the reader is opened on the file as written ...
OpenReader ==
    /\ pc = "closed"
    /\ bs' = BitStream(NewFile(file), STREAM_READ)
    /\ pc' = "decoding"
    /\ UNCHANGED <<err, g, data, out, call, file, marks>>
    /\ UNCHANGED codecVars

\* ... or on the file without its last byte
OpenTruncated ==
    /\ pc = "closed"
    /\ Len(file) > 0
    /\ bs' = BitStream(NewFile(SubSeq(file, 1, Len(file) - 1)), STREAM_READ)
    /\ pc' = "decoding"
    /\ UNCHANGED <<err, g, data, out, call, file, marks>>
    /\ UNCHANGED codecVars

\* int val = g.decode(bs_read) (ex3.cpp 43-47); an exception ends the run
Decode ==
    /\ pc = "decoding"
    /\ Len(out) < Len(data)
    /\ LET d == decode(g, bs)
       IN  IF d.exc # "none"
           THEN /\ err' = d.exc
                /\ pc' = "failed"
                /\ bs' = d.bs
                /\ UNCHANGED <<out, marks>>
           ELSE /\ out' = Append(out, d.val)
                /\ bs' = d.bs
                /\ marks' = [marks EXCEPT !.r = Append(@, BitsDone(d.bs))]
                /\ UNCHANGED <<pc, err>>
    /\ UNCHANGED <<g, data, call, file>>
    /\ UNCHANGED codecVars

\* bs_read.close() and the comparison of data with decoded_data (ex3.cpp 49-55)
Finish ==
    /\ pc = "decoding"
    /\ Len(out) = Len(data)
    /\ bs' = close(bs)
    /\ pc' = "done"
    /\ UNCHANGED <<err, g, data, out, call, file, marks>>
    /\ UNCHANGED codecVars

Next ==
    \/ Construct
    \/ SetM
    \/ Encode
    \/ CloseWriter
    \/ OpenReader
    \/ OpenTruncated
    \/ Decode
    \/ Finish

Spec == Init /\ [][Next]_vars

\* the reader was opened on the whole file
Intact == bs.rw = STREAM_READ /\ bs.fs.bytes = file

\* the code word of n under the coder gol, as a bit sequence
Codeword(gol, n) == Emitted(encode(gol, n, NoStream))

\* C2: Golomb signed round-trip.  In both sign modes, for every m tried,
\* decoding the closed, intact stream with the same m and mode returns the
\* values in the order they were encoded and never throws; when as many
\* values were decoded as were encoded the two sequences are equal.
SignedRoundTrip ==
    (pc \in {"decoding", "done", "failed"} /\ Intact) =>
        /\ err = "none"
        /\ out = SubSeq(data, 1, Len(out))
        /\ pc = "done" => out = data

\* a sign/magnitude run that decoded a zero (with its redundant sign bit)
\* and a negative value
SignedRoundTripWitness ==
    /\ pc = "done"
    /\ Intact
    /\ g.mode = SIGN_AND_MAGNITUDE
    /\ g.m = 3
    /\ out = <<0, -2, 1>>

\* an interleaving run that decoded the extreme values
SignedInterleavingWitness ==
    /\ pc = "done"
    /\ Intact
    /\ g.mode = INTERLEAVING
    /\ g.m = 5
    /\ out = <<-MaxAbs, MaxAbs, 0>>

\* every way of cutting a bit sequence into code words of values of Values
RECURSIVE Parses(_, _)
Parses(gol, bits) ==
    IF bits = <<>> THEN {<<>>}
    ELSE UNION {
            {<<v>> \o p : p \in Parses(gol, SubSeq(bits, Len(Codeword(gol, v)) + 1, Len(bits)))}
            : v \in {x \in Values : IsPrefix(Codeword(gol, x), bits)} }

\* C7: prefix-free.  For the coder's m and sign mode, the code word of an
\* encoded value is no prefix of the code word of a different encoded value,
\* and the bits emitted for the data have exactly one parse into values:
\* the data.
PrefixFree ==
    (pc = "encoding" /\ g.alive) =>
        /\ \A i, j \in DOMAIN data :
              data[i] # data[j] =>
                 ~IsPrefix(Codeword(g, data[i]), Codeword(g, data[j]))
        /\ Parses(g, Emitted(bs)) = {data}

\* three different values were encoded with an m that has both remainder
\* lengths
PrefixFreeWitness ==
    /\ pc = "encoding"
    /\ g.m = 3
    /\ g.mode = INTERLEAVING
    /\ data = <<0, -1, 2>>

\* C8: end of stream inside a code word is an error.  Whenever the reader
\* has run into the end of the stream, Golomb::decode has thrown and no
\* value was returned from the exhausted stream.
EosIsAlwaysError ==
    (pc \in {"decoding", "done", "failed"} /\ bs.eos) => err = "runtime_error"

\* the three places where the code does throw: the stream ended in the unary
\* prefix, at the sign bit or at the last remainder bit
EosDetected ==
    pc = "failed" /\ bs.eos /\ err = "runtime_error"

\* C9: m <= 0 is rejected.  A live Golomb object has get_m() >= 1; a
\* constructor or set_m call with m <= 0 threw invalid_argument, and left
\* no object (constructor) or the object as it was (set_m).
InvalidMRejected ==
    /\ g.alive => get_m(g) >= 1
    /\ (call.op # "none" /\ call.arg <= 0) =>
          (call.exc = "invalid_argument" /\ g = call.before)
    /\ (call.op # "none" /\ call.arg > 0) =>
          (call.exc = "none" /\ g.alive /\ get_m(g) = call.arg)

\* set_m(0) was refused on a coder whose m had been set before
InvalidMRejectedWitness ==
    /\ call.op = "set_m"
    /\ call.arg = 0
    /\ call.exc = "invalid_argument"
    /\ g.alive
    /\ get_m(g) = 4

\* the constructor refused m = -1
InvalidCtorWitness ==
    call.op = "Golomb" /\ call.arg = -1 /\ pc = "failed" /\ ~g.alive

----------------------------------------------------------------------------
(* Driver of the BitStream alone: a sequence of writes, close, then reads  *)
(* of the same widths from the file                                        *)

\* the alternating pattern 1010... of width w
Alternating(w) == Pow2(w + 1) \div 3

\* values written in a field of width w: all zeros and the alternating
\* pattern (runs of ones come from consecutive one-bit fields)
FieldValues(w) == {0, Alternating(w)}

InitB ==
    /\ CodecIdle
    /\ pc = "b_write"
    /\ err = "none"
    /\ g = NoGolomb
    /\ bs = NoStream
    /\ data = <<>>
    /\ out = <<>>
    /\ call = NoCall
    /\ file = <<>>
    /\ marks = NoMarks

\* bs.write_n_bits(value, width)
BWriteNBits ==
    /\ pc = "b_write"
    /\ Len(data) < MaxFields
    /\ \E width \in 1..MaxWidth :
          \E value \in FieldValues(width) :
             /\ bs' = write_n_bits(bs, value, width)
             /\ data' = Append(data, <<value, width>>)
    /\ marks' = [marks EXCEPT !.w = Append(@, BitsDone(bs'))]
    /\ UNCHANGED <<pc, err, g, out, call, file>>
    /\ UNCHANGED codecVars

\* bs.write_bit(b)
BWriteBit ==
    /\ pc = "b_write"
    /\ Len(data) < MaxFields
    /\ \E b \in {0, 1} :
          /\ bs' = write_bit(bs, b)
          /\ data' = Append(data, <<b, 1>>)
    /\ marks' = [marks EXCEPT !.w = Append(@, BitsDone(bs'))]
    /\ UNCHANGED <<pc, err, g, out, call, file>>
    /\ UNCHANGED codecVars

\* bs.close() on the writer; the file holds what the sink received
BClose ==
    /\ pc = "b_write"
    /\ bs' = close(bs)
    /\ file' = bs'.fs.bytes
    /\ pc' = "b_closed"
    /\ UNCHANGED <<err, g, data, out, call, marks>>
    /\ UNCHANGED codecVars

\* a reader is bound to the file
BOpen ==
    /\ pc = "b_closed"
    /\ bs' = BitStream(NewFile(file), STREAM_READ)
    /\ pc' = "b_read"
    /\ UNCHANGED <<err, g, data, out, call, file, marks>>
    /\ UNCHANGED codecVars

\* bs.read_n_bits(width) with the width of the next field
BReadNBits ==
    /\ pc = "b_read"
    /\ Len(out) < Len(data)
    /\ LET rd == read_n_bits(bs, data[Len(out) + 1][2])
       IN  /\ bs' = rd.bs
           /\ out' = Append(out, rd.val)
    /\ marks' = [marks EXCEPT !.r = Append(@, BitsDone(bs'))]
    /\ UNCHANGED <<pc, err, g, data, call, file>>
    /\ UNCHANGED codecVars

\* bs.read_bit() where the next field is one bit wide
BReadBit ==
    /\ pc = "b_read"
    /\ Len(out) < Len(data)
    /\ data[Len(out) + 1][2] = 1
    /\ LET rd == read_bit(bs)
       IN  /\ bs' = rd.bs
           /\ out' = Append(out, rd.bit)
    /\ marks' = [marks EXCEPT !.r = Append(@, BitsDone(bs'))]
    /\ UNCHANGED <<pc, err, g, data, call, file>>
    /\ UNCHANGED codecVars

\* bs.close() on the reader
BCloseReader ==
    /\ pc = "b_read"
    /\ Len(out) = Len(data)
    /\ bs' = close(bs)
    /\ pc' = "b_done"
    /\ UNCHANGED <<err, g, data, out, call, file, marks>>
    /\ UNCHANGED codecVars

\* bs.close() once more, on the closed writer or on the closed reader
BCloseAgain ==
    /\ pc \in {"b_closed", "b_done"}
    /\ bs' = close(bs)
    /\ pc' = IF pc = "b_closed" THEN "b_closed_twice" ELSE "b_done_twice"
    /\ UNCHANGED <<err, g, data, out, call, file, marks>>
    /\ UNCHANGED codecVars

NextB ==
    \/ BWriteNBits
    \/ BWriteBit
    \/ BClose
    \/ BOpen
    \/ BReadNBits
    \/ BReadBit
    \/ BCloseReader
    \/ BCloseAgain

SpecBits == InitB /\ [][NextB]_vars

\* sum of the widths of the first k fields
RECURSIVE WidthSum(_, _)
WidthSum(fields, k) ==
    IF k = 0 THEN 0 ELSE WidthSum(fields, k - 1) + fields[k][2]

\* the bits of the fields, each field most significant bit first
RECURSIVE FieldBits(_)
FieldBits(fields) ==
    IF fields = <<>> THEN <<>>
    ELSE LET f == fields[Len(fields)]
         IN  FieldBits(SubSeq(fields, 1, Len(fields) - 1))
                \o [i \in 1..f[2] |-> BitOf(f[1], f[2] - i)]

\* C5: BitStream round-trip.  Reading the closed file with the widths that
\* were written returns the values that were written, in order, and every
\* write and every read of n bits advances the stream by exactly n bits.
BitStreamRoundTrip ==
    /\ pc = "b_write" =>
          \A i \in DOMAIN data : marks.w[i] = WidthSum(data, i)
    /\ pc \in {"b_read", "b_done"} =>
          /\ \A i \in DOMAIN out :
                out[i] = data[i][1] /\ marks.r[i] = WidthSum(data, i)
          /\ pc = "b_done" => Len(out) = Len(data)
          /\ ~bs.eos

\* fields of every width were read back across a byte boundary
BitStreamRoundTripWitness ==
    /\ pc = "b_done"
    /\ out = <<5, 2, 1, 5>>
    /\ data = <<<<5, 3>>, <<2, 2>>, <<1, 1>>, <<5, 3>>>>
    /\ Len(file) = 2

\* C6: BitStream byte accounting.  After close the sink holds exactly
\* ceil(S/8) bytes for S bits written; the first S bits of the file are the
\* written bits MSB-first in emission order and the remaining bits of the
\* last byte are zero.  The fields (1,1),(2,2),(5,3),(0,2) leave the single
\* byte 0xD4.
ByteAccounting ==
    pc \in {"b_closed", "b_read", "b_done"} =>
        LET S == WidthSum(data, Len(data))
            W == FieldBits(data)
        IN  /\ Len(file) = (S + 7) \div 8
            /\ \A i \in 1..(8 * Len(file)) :
                  FileBit(file, i) = IF i <= S THEN W[i] ELSE 0
            /\ data = <<<<1, 1>>, <<2, 2>>, <<5, 3>>, <<0, 2>>>> => file = <<212>>

\* the scenario of the specification: one byte 0xD4
ByteAccountingWitness ==
    /\ pc = "b_closed"
    /\ data = <<<<1, 1>>, <<2, 2>>, <<5, 3>>, <<0, 2>>>>
    /\ file = <<212>>

\* a close that had to pad five bits of a second byte
PaddingWitness ==
    /\ pc = "b_closed"
    /\ WidthSum(data, Len(data)) = 11
    /\ Len(file) = 2
    /\ file[2] = 160

----------------------------------------------------------------------------
(* AudioCodec (audio_codec.h, audio_codec.cpp) *)

\* static_cast<int16_t>(x)
Int16(x) == ((x + 32768) % 65536) - 32768

\* static_cast<uint16_t>(x)
UInt16(x) == x % 65536

RECURSIVE SumAbs(_)
SumAbs(residuals) ==
    IF residuals = <<>> THEN 0
    ELSE Abs(residuals[1]) + SumAbs(Tail(residuals))

\* round(avg * 0.693147) for avg = sum_abs / size, in exact arithmetic kept
\* below 2^31: sum_abs = s1 * 1000 + s0 is multiplied by 693147 in two parts
\* (sum_abs < 3 * 10^6, size < 300)
RoundScaledMean(sum_abs, size) ==
    LET N1 == (sum_abs \div 1000) * 693147
        N2 == (sum_abs % 1000) * 693147
        T  == (N1 % (size * 1000)) * 1000 + N2
    IN  (N1 \div (size * 1000)) + ((2 * T + size * 1000000) \div (2 * size * 1000000))

\* calculate_m cutting the fraction of avg * 0.693147 instead of rounding
calculate_m_truncating(residuals) ==
    IF residuals = <<>> THEN 1
    ELSE Max(1, (SumAbs(residuals) * 693147) \div (Len(residuals) * 1000000))

\* calculate_m scaling the sum of the magnitudes, not their mean
calculate_m_of_sum(residuals) ==
    IF residuals = <<>> THEN 1
    ELSE Max(1, RoundScaledMean(SumAbs(residuals), 1))

\* AudioCodec::calculate_m: max(1, round(avg * 0.693147)), avg = sum / size
calculate_m(residuals) ==
    IF residuals = <<>> THEN 1
    ELSE Max(1, RoundScaledMean(SumAbs(residuals), Len(residuals)))

\* ImageCodec::calculate_m (image_codec.cpp 39-50)
image_calculate_m(residuals) ==
    IF residuals = <<>> THEN 1
    ELSE Max(1, RoundScaledMean(SumAbs(residuals), Len(residuals)))

\* AudioCodec::AudioCodec(in_file, out_file, m, adaptive)
AudioCodecNew(m, adaptive) ==
    IF ~adaptive /\ m <= 0
    THEN [obj |-> NoCodec, exc |-> "invalid_argument"]
    ELSE [obj |-> [m_fixed_m |-> m, m_adaptive |-> adaptive], exc |-> "none"]

\* AudioCodec::AudioCodec(in_file, out_file), the decoding constructor
AudioCodecForDecode == [m_fixed_m |-> 1, m_adaptive |-> FALSE]

\* the CodecHeader that encode() fills in (audio_codec.cpp 82-87)
AudioHeader(cd, wav) ==
    [magic |-> "GACL", version |-> 1,
     num_channels |-> wav.channels, sample_rate |-> wav.samplerate,
     bits_per_sample |-> 16, total_samples |-> Len(wav.frames),
     adaptive |-> cd.m_adaptive, fixed_m |-> UInt16(cd.m_fixed_m)]

\* read_codec_header taking the magic of either codec
AudioHeaderAcceptedEitherMagic(h) == h.magic \in {"GACL", "GICL"}

\* read_codec_header: only the magic is compared
AudioHeaderAccepted(h) == h.magic = "GACL"

\* the residual loop with the right residual taken against the left sample
\* of the frame before
RECURSIVE AudioResidualsRightFromOldLeft(_, _, _, _)
AudioResidualsRightFromOldLeft(frames, channels, pred_l, acc) ==
    IF frames = <<>> THEN [res |-> acc, pred_l |-> pred_l]
    ELSE LET l     == frames[1][1]
             res_l == l - pred_l
         IN  IF channels = 2
             THEN AudioResidualsRightFromOldLeft(Tail(frames), channels, l,
                                 acc \o <<res_l, frames[1][2] - pred_l>>)
             ELSE AudioResidualsRightFromOldLeft(Tail(frames), channels, l,
                                                 Append(acc, res_l))

\* the residual loop of encode() over the frames of one block
RECURSIVE AudioResiduals(_, _, _, _)
AudioResiduals(frames, channels, pred_l, acc) ==
    IF frames = <<>> THEN [res |-> acc, pred_l |-> pred_l]
    ELSE LET l     == frames[1][1]
             res_l == l - pred_l
         IN  IF channels = 2
             THEN AudioResiduals(Tail(frames), channels, l,
                                 acc \o <<res_l, frames[1][2] - l>>)
             ELSE AudioResiduals(Tail(frames), channels, l, Append(acc, res_l))

\* for (int residual : residual_buffer) golomb.encode(residual, bs); the
\* stream after one residual is bound as a value (s1) before the next
\* residual is encoded, as the statements of the loop are run in order
RECURSIVE EncodeAll(_, _, _)
EncodeAll(gol, residuals, s) ==
    IF residuals = <<>> THEN s
    ELSE CHOOSE t \in {EncodeAll(gol, Tail(residuals), s1) :
                           s1 \in {encode(gol, residuals[1], s)}} : TRUE

\* the frame loop of decode() over one block (audio_codec.cpp 188-200); an
\* exception of Golomb::decode leaves the loop with the frames decoded so
\* far unwritten
RECURSIVE AudioDecodeFrames(_, _, _, _, _, _)
RECURSIVE AudioLeftDecoded(_, _, _, _, _, _)
RECURSIVE AudioRightDecoded(_, _, _, _, _)
AudioDecodeFrames(gol, s, channels, pred_l, n, acc) ==
    IF n = 0 THEN [bs |-> s, frames |-> acc, pred_l |-> pred_l, exc |-> "none"]
    ELSE CHOOSE t \in {AudioLeftDecoded(gol, dl, channels, pred_l, n, acc) :
                           dl \in {decode(gol, s)}} : TRUE

\* the frame from int res_l = golomb.decode(bs) on; dl is what decode returned
AudioLeftDecoded(gol, dl, channels, pred_l, n, acc) ==
    IF dl.exc # "none"
    THEN [bs |-> dl.bs, frames |-> acc, pred_l |-> pred_l, exc |-> dl.exc]
    ELSE IF channels = 2
         THEN CHOOSE t \in {AudioRightDecoded(gol, dr, dl.val + pred_l, n, acc) :
                                dr \in {decode(gol, dl.bs)}} : TRUE
         ELSE AudioDecodeFrames(gol, dl.bs, channels, dl.val + pred_l, n - 1,
                                Append(acc, <<Int16(dl.val + pred_l)>>))

\* the stereo frame from int res_r = golomb.decode(bs) on; l is the left sample
AudioRightDecoded(gol, dr, l, n, acc) ==
    IF dr.exc # "none"
    THEN [bs |-> dr.bs, frames |-> acc, pred_l |-> l, exc |-> dr.exc]
    ELSE AudioDecodeFrames(gol, dr.bs, 2, l, n - 1,
                           Append(acc, <<Int16(l), Int16(dr.val + l)>>))

----------------------------------------------------------------------------
(* Audio session: an encoder run on a WAV input, then a decoder run on a   *)
(* file (the encoder's output, possibly with another magic or version)     *)

\* sample values of the inputs
Samples == {-3, 0, 4}

\* the frames of the inputs: every sample for mono, four pairs for stereo
Frames(channels) ==
    IF channels = 1 THEN {<<a>> : a \in Samples}
    ELSE {<<0, 0>>, <<4, -3>>, <<-3, 4>>, <<-3, -3>>}

RECURSIVE FrameSeqs(_, _)
FrameSeqs(channels, n) ==
    IF n = 0 THEN {<<>>}
    ELSE LET shorter == FrameSeqs(channels, n - 1)
         IN  shorter \cup {Append(f, x) : f \in {y \in shorter : Len(y) = n - 1},
                                          x \in Frames(channels)}

\* what sf_open reports and sf_readf_short delivers: mono and stereo PCM16
\* of every length up to MaxFrames, and one input of each refused kind
WavInputs ==
    {[format |-> "PCM_16", channels |-> c, samplerate |-> 44100, frames |-> f] :
        c \in {1}, f \in FrameSeqs(1, MaxFrames)}
    \cup {[format |-> "PCM_16", channels |-> c, samplerate |-> 44100, frames |-> f] :
        c \in {2}, f \in FrameSeqs(2, MaxFrames)}
    \cup {[format |-> "PCM_24", channels |-> 1, samplerate |-> 44100, frames |-> <<>>],
          [format |-> "PCM_16", channels |-> 3, samplerate |-> 44100, frames |-> <<>>]}

\* m handed to the encoding constructor with adaptive = false ...
FixedMs == {0, 1, 3, Pow2(16), Pow2(16) + 1}

\* ... and with adaptive = true
AdaptiveMs == {-1, 0}

\* magic and version of the files handed to the decoder
Magics == {"GACL", "GICL"}

Versions == {1, 2}

NoWav == [channels |-> 0, samplerate |-> 0, frames |-> <<>>]

InitA ==
    /\ pc = "a_start"
    /\ err = "none"
    /\ g = NoGolomb
    /\ bs = NoStream
    /\ data \in WavInputs
    /\ out = NoWav
    /\ call = NoCall
    /\ file = NoFile
    /\ marks = NoMarks
    /\ codec = NoCodec
    /\ hdr = NoHeader
    /\ loc = NoLocals
    /\ infile = NoFile

\* AudioCodec codec(in, out, m, adaptive)
AConstruct ==
    /\ pc = "a_start"
    /\ \E adaptive \in BOOLEAN :
          \E m \in (IF adaptive THEN AdaptiveMs ELSE FixedMs) :
             LET c == AudioCodecNew(m, adaptive)
             IN  /\ codec' = c.obj
                 /\ err' = c.exc
                 /\ pc' = IF c.exc = "none" THEN "a_ready" ELSE "a_enc_failed"
    /\ UNCHANGED <<g, bs, data, out, call, file, marks, hdr, loc, infile>>

\* the m of a block written in one byte
write_block_m_in_a_byte(s, m) == write_n_bits(s, m, 8)

\* bs.write_n_bits(static_cast<uint64_t>(m), 16) of the adaptive branch
write_block_m(s, m) == write_n_bits(s, m, 16)

\* where a block stands in the stream: the position of its 16-bit m field
\* (-1 if it has none), the position of its first residual, the m of its
\* residuals and their number
BlockMark(adaptive, before, after_field, gol, n) ==
    [field |-> IF adaptive THEN BitsDone(before) ELSE -1,
     first |-> BitsDone(after_field), m |-> gol.m, n |-> n]

\* encode() up to the block loop (audio_codec.cpp 51-101)
AEncodeOpen ==
    /\ pc = "a_ready"
    /\ IF data.format # "PCM_16" \/ data.channels > 2
       THEN /\ err' = "runtime_error"
            /\ pc' = "a_enc_failed"
            /\ UNCHANGED <<g, bs, file, hdr, loc>>
       ELSE /\ hdr' = AudioHeader(codec, data)
            /\ file' = [hdr |-> hdr', bytes |-> <<>>]
            /\ bs' = BitStream(NewFile(<<>>), STREAM_WRITE)
            /\ g' = GolombNew(IF codec.m_adaptive THEN 1 ELSE codec.m_fixed_m,
                              INTERLEAVING).obj
            /\ loc' = [pred_l |-> 0, pos |-> 0, todo |-> 0, residual_buffer |-> <<>>]
            /\ pc' = "a_encoding"
            /\ UNCHANGED err
    /\ UNCHANGED <<data, out, call, marks, codec, infile>>

\* one turn of the block loop of encode() (audio_codec.cpp 104-132)
AEncodeBlock ==
    /\ pc = "a_encoding"
    /\ loc.pos < Len(data.frames)
    /\ \E frames_read \in {Min(BLOCK_SIZE, Len(data.frames) - loc.pos)} :
       \E rs \in {AudioResiduals(SubSeq(data.frames, loc.pos + 1, loc.pos + frames_read),
                                 data.channels, loc.pred_l, <<>>)} :
       \E m \in {calculate_m(rs.res)} :
       \E gol \in {IF codec.m_adaptive THEN set_m(g, m).obj ELSE g} :
       \E s1 \in {IF codec.m_adaptive THEN write_block_m(bs, m) ELSE bs} :
           /\ g' = gol
           /\ bs' = EncodeAll(gol, rs.res, s1)
           /\ loc' = [loc EXCEPT !.pred_l = rs.pred_l, !.pos = @ + frames_read,
                                 !.residual_buffer = rs.res]
           /\ marks' = [marks EXCEPT !.w = Append(@, BlockMark(codec.m_adaptive, bs,
                                                                s1, gol, Len(rs.res)))]
    /\ UNCHANGED <<pc, err, data, out, call, file, codec, hdr, infile>>

\* the end of encode() with out_fs.close() before bs.close()
AEncodeCloseSinkFirst ==
    /\ pc = "a_encoding"
    /\ loc.pos = Len(data.frames)
    /\ file' = [file EXCEPT !.bytes = bs.fs.bytes]
    /\ bs' = close(bs)
    /\ pc' = "a_encoded"
    /\ UNCHANGED <<err, g, data, out, call, marks, codec, hdr, loc, infile>>

\* the end of encode(): bs.close(), out_fs.close() (audio_codec.cpp 134-137)
AEncodeClose ==
    /\ pc = "a_encoding"
    /\ loc.pos = Len(data.frames)
    /\ bs' = close(bs)
    /\ file' = [file EXCEPT !.bytes = bs'.fs.bytes]
    /\ pc' = "a_encoded"
    /\ UNCHANGED <<err, g, data, out, call, marks, codec, hdr, loc, infile>>

\* AudioCodec codec(in, out) on the encoder's file, or on that file with
\* another magic or version in its header
AFeed ==
    /\ pc = "a_encoded"
    /\ \E mg \in Magics, v \in Versions :
          infile' = [file EXCEPT !.hdr.magic = mg, !.hdr.version = v]
    /\ codec' = AudioCodecForDecode
    /\ hdr' = NoHeader
    /\ g' = NoGolomb
    /\ pc' = "a_dec_ready"
    /\ UNCHANGED <<err, bs, data, out, call, file, marks, loc>>

\* decode() up to the block loop (audio_codec.cpp 140-176)
ADecodeOpen ==
    /\ pc = "a_dec_ready"
    /\ IF ~AudioHeaderAccepted(infile.hdr)
       THEN /\ err' = "runtime_error"
            /\ pc' = "a_dec_failed"
            /\ UNCHANGED <<g, bs, out, hdr, loc>>
       ELSE LET c == GolombNew(infile.hdr.fixed_m, INTERLEAVING)
            IN  /\ hdr' = infile.hdr
                /\ out' = [channels |-> hdr'.num_channels,
                           samplerate |-> hdr'.sample_rate, frames |-> <<>>]
                /\ bs' = BitStream(NewFile(infile.bytes), STREAM_READ)
                /\ g' = c.obj
                /\ err' = c.exc
                /\ loc' = [pred_l |-> 0, pos |-> 0, todo |-> hdr'.total_samples,
                           residual_buffer |-> <<>>]
                /\ pc' = IF c.exc = "none" THEN "a_decoding" ELSE "a_dec_failed"
    /\ UNCHANGED <<data, call, file, marks, codec, infile>>

\* the block loop of decode() after its frame loop: d is what the frame loop
\* left; the block is written with sf_write_short only if nothing was thrown
ADecodeBlockEnd(gol, block_size, d) ==
    /\ g' = gol
    /\ bs' = d.bs
    /\ err' = IF d.exc # "none" THEN d.exc ELSE err
    /\ pc' = IF d.exc # "none" THEN "a_dec_failed" ELSE pc
    /\ out' = IF d.exc # "none" THEN out ELSE [out EXCEPT !.frames = @ \o d.frames]
    /\ loc' = IF d.exc # "none" THEN [loc EXCEPT !.pred_l = d.pred_l]
              ELSE [loc EXCEPT !.pred_l = d.pred_l, !.todo = @ - block_size]

\* one turn of the block loop of decode() (audio_codec.cpp 178-205)
ADecodeBlock ==
    /\ pc = "a_decoding"
    /\ loc.todo > 0
    /\ \E rm \in {read_n_bits(bs, 16)} :
       \E m \in {IF rm.val <= 0 THEN 1 ELSE rm.val} :
       \E gol \in {IF hdr.adaptive THEN set_m(g, m).obj ELSE g} :
       \E s1 \in {IF hdr.adaptive THEN rm.bs ELSE bs} :
       \E block_size \in {Min(BLOCK_SIZE, loc.todo)} :
           /\ \E d \in {AudioDecodeFrames(gol, s1, hdr.num_channels, loc.pred_l,
                                        block_size, <<>>)} :
                 ADecodeBlockEnd(gol, block_size, d)
           /\ marks' = [marks EXCEPT !.r = Append(@, BlockMark(hdr.adaptive, bs, s1, gol,
                                                   block_size * hdr.num_channels))]
    /\ UNCHANGED <<data, call, file, codec, hdr, infile>>

\* the end of decode(): bs.close(), in_fs.close(), sf_close (audio_codec.cpp 207-210)
ADecodeClose ==
    /\ pc = "a_decoding"
    /\ loc.todo = 0
    /\ bs' = close(bs)
    /\ pc' = "a_done"
    /\ UNCHANGED <<err, g, data, out, call, file, marks, codec, hdr, loc, infile>>

NextA ==
    \/ AConstruct
    \/ AEncodeOpen
    \/ AEncodeBlock
    \/ AEncodeClose
    \/ AFeed
    \/ ADecodeOpen
    \/ ADecodeBlock
    \/ ADecodeClose

SpecAudio == InitA /\ [][NextA]_vars

\* the decoder was given the file the encoder left
IntactFile == infile = file

\* C3: audio round-trip.  Whenever a decoder run on the encoder's own file
\* has ended, it ended without an exception and wrote exactly the frames of
\* the input, sample for sample.
AudioRoundTrip ==
    (pc \in {"a_done", "a_dec_failed"} /\ IntactFile) =>
        /\ pc = "a_done"
        /\ out.frames = data.frames

\* C10 (audio half): header validation on decode.  A decoder run that got
\* past the header was given magic "GACL" and version 1.
AudioHeaderValidated ==
    pc \in {"a_decoding", "a_done"} =>
        (infile.hdr.magic = "GACL" /\ infile.hdr.version = 1)

----------------------------------------------------------------------------
(* ImageCodec (image_codec.h, image_codec.cpp) *)

\* static const int BLOCK_SIZE_Y = 64, scaled down
BLOCK_SIZE_Y == 2

\* rows of the largest input image
MaxRows == 3

\* ImageCodec::ImageCodec(in_file, out_file, m, adaptive)
ImageCodecNew(m, adaptive) ==
    IF ~adaptive /\ m <= 0
    THEN [obj |-> NoCodec, exc |-> "invalid_argument"]
    ELSE [obj |-> [m_fixed_m |-> m, m_adaptive |-> adaptive], exc |-> "none"]

\* ImageCodec::ImageCodec(in_file, out_file), the decoding constructor
ImageCodecForDecode == [m_fixed_m |-> 1, m_adaptive |-> FALSE]

\* a cv::Mat of type CV_8U: img.px[r + 1][c + 1] is img.at<uint8_t>(r, c)
Mat(rows, cols) ==
    [rows |-> rows, cols |-> cols, px |-> [r \in 1..rows |-> [c \in 1..cols |-> 0]]]

\* ImageCodec::get_pixel
get_pixel(img, r, c) ==
    IF r < 0 \/ c < 0 THEN 0 ELSE img.px[r + 1][c + 1]

\* predict with the results of its first two cases exchanged
predict_swapped(A, B, C) ==
    IF C >= Max(A, B) THEN Max(A, B)
    ELSE IF C <= Min(A, B) THEN Min(A, B)
         ELSE A + B - C

\* ImageCodec::predict
predict(A, B, C) ==
    IF C >= Max(A, B) THEN Min(A, B)
    ELSE IF C <= Min(A, B) THEN Max(A, B)
         ELSE A + B - C

\* P of the pixel (r, c) from its left, upper and upper-left neighbours
Prediction(img, r, c) ==
    predict(get_pixel(img, r, c - 1), get_pixel(img, r - 1, c),
            get_pixel(img, r - 1, c - 1))

\* the CodecHeader that encode() fills in (image_codec.cpp 88-92)
ImageHeader(cd, img) ==
    [magic |-> "GICL", version |-> 1, width |-> img.cols, height |-> img.rows,
     adaptive |-> cd.m_adaptive, fixed_m |-> UInt16(cd.m_fixed_m)]

\* read_codec_header: only the magic is compared
ImageHeaderAccepted(h) == h.magic = "GICL"

\* the residuals X - P of row r in column order (image_codec.cpp 100-111)
RowResiduals(img, r) ==
    [k \in 1..img.cols |-> get_pixel(img, r, k - 1) - Prediction(img, r, k - 1)]

\* blocks_residuals after the rows from r on were visited (image_codec.cpp 98-112)
RECURSIVE ImageResiduals(_, _, _)
ImageResiduals(img, r, blocks) ==
    IF r >= img.rows THEN blocks
    ELSE ImageResiduals(img, r + 1,
            [blocks EXCEPT ![(r \div BLOCK_SIZE_Y) + 1] = @ \o RowResiduals(img, r)])

\* the column loop of decode() over row r from column c on
\* (image_codec.cpp 180-194); an exception of Golomb::decode leaves it
\* clamped: X < 0 or X > 255 held for some pixel, so that X was replaced
RECURSIVE ImageDecodeRow(_, _, _, _, _, _)
RECURSIVE ImagePixelDecoded(_, _, _, _, _, _)
ImageDecodeRow(gol, s, img, r, c, clamped) ==
    IF c >= img.cols THEN [bs |-> s, img |-> img, exc |-> "none", clamped |-> clamped]
    ELSE CHOOSE t \in {ImagePixelDecoded(gol, d, img, r, c, clamped) :
                           d \in {decode(gol, s)}} : TRUE

\* the pixel from int residual = golomb.decode(bs) on; d is what decode returned
ImagePixelDecoded(gol, d, img, r, c, clamped) ==
    IF d.exc # "none"
    THEN [bs |-> d.bs, img |-> img, exc |-> d.exc, clamped |-> clamped]
    ELSE CHOOSE t \in
             {ImageDecodeRow(gol, d.bs,
                             [img EXCEPT !.px[r + 1][c + 1] = Max(0, Min(255, X))],
                             r, c + 1, clamped \/ X < 0 \/ X > 255) :
                 X \in {d.val + Prediction(img, r, c)}} : TRUE

----------------------------------------------------------------------------
(* Image session: an encoder run on an image, then a decoder run on a file *)
(* (the encoder's output, possibly with another magic or version)          *)

\* the rows the input images are made of
PixelRows(cols) ==
    IF cols = 1 THEN {<<0>>, <<2>>, <<5>>}
    ELSE {<<0, 0>>, <<2, 5>>, <<5, 0>>, <<5, 5>>}

Widths == {1, 2}

\* what cv::imread delivers: 8-bit greyscale images of 1 to MaxRows rows
Images ==
    UNION {{[rows |-> h, cols |-> w, px |-> p] : p \in [1..h -> PixelRows(w)]} :
              <<w, h>> \in Widths \X (1..MaxRows)}

NoImage == [rows |-> 0, cols |-> 0, px |-> <<>>]

InitI ==
    /\ pc = "i_start"
    /\ err = "none"
    /\ g = NoGolomb
    /\ bs = NoStream
    /\ data \in Images
    /\ out = NoImage
    /\ call = NoCall
    /\ file = NoFile
    /\ marks = NoMarks
    /\ codec = NoCodec
    /\ hdr = NoHeader
    /\ loc = NoLocals
    /\ infile = NoFile

\* ImageCodec codec(in, out, m, adaptive)
IConstruct ==
    /\ pc = "i_start"
    /\ \E adaptive \in BOOLEAN :
          \E m \in (IF adaptive THEN AdaptiveMs ELSE FixedMs) :
             LET c == ImageCodecNew(m, adaptive)
             IN  /\ codec' = c.obj
                 /\ err' = c.exc
                 /\ pc' = IF c.exc = "none" THEN "i_ready" ELSE "i_enc_failed"
    /\ UNCHANGED <<g, bs, data, out, call, file, marks, hdr, loc, infile>>

\* encode() up to the block loop (image_codec.cpp 70-116)
IEncodeOpen ==
    /\ pc = "i_ready"
    /\ hdr' = ImageHeader(codec, data)
    /\ file' = [hdr |-> hdr', bytes |-> <<>>]
    /\ loc' = [blocks |-> ImageResiduals(data, 0,
                              [b \in 1..((data.rows + BLOCK_SIZE_Y - 1) \div BLOCK_SIZE_Y)
                                  |-> <<>>]),
               idx |-> 1, r |-> 0, img |-> NoImage]
    /\ bs' = BitStream(NewFile(<<>>), STREAM_WRITE)
    /\ g' = GolombNew(IF codec.m_adaptive THEN 1 ELSE codec.m_fixed_m, INTERLEAVING).obj
    /\ pc' = "i_encoding"
    /\ UNCHANGED <<err, data, out, call, marks, codec, infile>>

\* one turn of the block loop of encode() (image_codec.cpp 118-128)
IEncodeBlock ==
    /\ pc = "i_encoding"
    /\ loc.idx <= Len(loc.blocks)
    /\ \E block \in {loc.blocks[loc.idx]} :
       \E m \in {image_calculate_m(block)} :
       \E gol \in {IF codec.m_adaptive THEN set_m(g, m).obj ELSE g} :
       \E s1 \in {IF codec.m_adaptive THEN write_block_m(bs, m) ELSE bs} :
           /\ g' = gol
           /\ bs' = EncodeAll(gol, block, s1)
           /\ loc' = [loc EXCEPT !.idx = @ + 1]
           /\ marks' = [marks EXCEPT !.w = Append(@, BlockMark(codec.m_adaptive, bs,
                                                                s1, gol, Len(block)))]
    /\ UNCHANGED <<pc, err, data, out, call, file, codec, hdr, infile>>

\* the end of encode(): bs.close(), out_fs.close() (image_codec.cpp 130-131)
IEncodeClose ==
    /\ pc = "i_encoding"
    /\ loc.idx > Len(loc.blocks)
    /\ bs' = close(bs)
    /\ file' = [file EXCEPT !.bytes = bs'.fs.bytes]
    /\ pc' = "i_encoded"
    /\ UNCHANGED <<err, g, data, out, call, marks, codec, hdr, loc, infile>>

\* ImageCodec codec(in, out) on the encoder's file, or on that file with
\* another magic or version in its header
IFeed ==
    /\ pc = "i_encoded"
    /\ \E mg \in Magics, v \in Versions :
          infile' = [file EXCEPT !.hdr.magic = mg, !.hdr.version = v]
    /\ codec' = ImageCodecForDecode
    /\ hdr' = NoHeader
    /\ g' = NoGolomb
    /\ pc' = "i_dec_ready"
    /\ UNCHANGED <<err, bs, data, out, call, file, marks, loc>>

\* decode() up to the row loop (image_codec.cpp 155-171)
IDecodeOpen ==
    /\ pc = "i_dec_ready"
    /\ IF ~ImageHeaderAccepted(infile.hdr)
       THEN /\ err' = "runtime_error"
            /\ pc' = "i_dec_failed"
            /\ UNCHANGED <<g, bs, hdr, loc>>
       ELSE LET c == GolombNew(IF infile.hdr.adaptive THEN 1 ELSE infile.hdr.fixed_m,
                               INTERLEAVING)
            IN  /\ hdr' = infile.hdr
                /\ bs' = BitStream(NewFile(infile.bytes), STREAM_READ)
                /\ g' = c.obj
                /\ err' = c.exc
                /\ loc' = [blocks |-> <<>>, idx |-> 0, r |-> 0,
                           img |-> Mat(hdr'.height, hdr'.width), clamped |-> FALSE]
                /\ pc' = IF c.exc = "none" THEN "i_decoding" ELSE "i_dec_failed"
    /\ UNCHANGED <<data, out, call, file, marks, codec, infile>>

\* the row loop of decode() after its column loop: d is what the column loop left
IDecodeRowEnd(gol, d) ==
    /\ g' = gol
    /\ bs' = d.bs
    /\ err' = IF d.exc # "none" THEN d.exc ELSE err
    /\ pc' = IF d.exc # "none" THEN "i_dec_failed" ELSE pc
    /\ loc' = IF d.exc # "none"
              THEN [loc EXCEPT !.img = d.img, !.clamped = d.clamped]
              ELSE [loc EXCEPT !.img = d.img, !.clamped = d.clamped, !.r = @ + 1]

\* one turn of the row loop of decode() (image_codec.cpp 173-195)
IDecodeRow ==
    /\ pc = "i_decoding"
    /\ loc.r < loc.img.rows
    /\ \E new_m \in {hdr.adaptive /\ loc.r % BLOCK_SIZE_Y = 0} :
       \E rm \in {read_n_bits(bs, 16)} :
       \E m \in {IF rm.val <= 0 THEN 1 ELSE rm.val} :
       \E gol \in {IF new_m THEN set_m(g, m).obj ELSE g} :
       \E s1 \in {IF new_m THEN rm.bs ELSE bs} :
           /\ \E d \in {ImageDecodeRow(gol, s1, loc.img, loc.r, 0, loc.clamped)} :
                 IDecodeRowEnd(gol, d)
           /\ marks' = IF loc.r % BLOCK_SIZE_Y = 0
                       THEN [marks EXCEPT !.r = Append(@,
                                BlockMark(hdr.adaptive, bs, s1, gol,
                                          Min(BLOCK_SIZE_Y, loc.img.rows - loc.r)
                                             * loc.img.cols))]
                       ELSE marks
    /\ UNCHANGED <<data, out, call, file, codec, hdr, infile>>

\* the end of decode(): bs.close(), in_fs.close(), cv::imwrite
\* (image_codec.cpp 197-210)
IDecodeClose ==
    /\ pc = "i_decoding"
    /\ loc.r = loc.img.rows
    /\ bs' = close(bs)
    /\ out' = loc.img
    /\ pc' = "i_done"
    /\ UNCHANGED <<err, g, data, call, file, marks, codec, hdr, loc, infile>>

NextI ==
    \/ IConstruct
    \/ IEncodeOpen
    \/ IEncodeBlock
    \/ IEncodeClose
    \/ IFeed
    \/ IDecodeOpen
    \/ IDecodeRow
    \/ IDecodeClose

SpecImage == InitI /\ [][NextI]_vars

\* C4: image round-trip.  Whenever a decoder run on the encoder's own file
\* has ended, it ended without an exception and saved a grid of the size of
\* the input in which every pixel equals the input pixel.
ImageRoundTrip ==
    (pc \in {"i_done", "i_dec_failed"} /\ IntactFile) =>
        /\ pc = "i_done"
        /\ out = data

\* C10 (image half): a decoder run that got past the header was given
\* magic "GICL" and version 1.
ImageHeaderValidated ==
    pc \in {"i_decoding", "i_done"} =>
        (infile.hdr.magic = "GICL" /\ infile.hdr.version = 1)

\* C11: magic mismatch.  A decoder run of the audio codec on a file whose
\* magic is "GICL" ends with std::runtime_error, and it ends before the
\* output WAV is opened: no output exists, no bit stream was opened on the
\* file, no coder was built and no frame was written.
GiclRejectedByAudio ==
    (infile.hdr.magic = "GICL" /\ pc \notin {"a_encoded", "a_dec_ready"}) =>
        /\ pc = "a_dec_failed"
        /\ err = "runtime_error"
        /\ out = NoWav
        /\ g = NoGolomb
        /\ hdr = NoHeader

\* a GICL file with a payload of three frames was refused
GiclRejectedByAudioWitness ==
    /\ pc = "a_dec_failed"
    /\ infile.hdr.magic = "GICL"
    /\ infile.hdr.version = 1
    /\ Len(data.frames) = 3
    /\ Len(infile.bytes) > 0
    /\ out = NoWav

----------------------------------------------------------------------------
(* The image command line (ex5.cpp): a run of main with -e, then a run of  *)
(* main with -d on the file the first run left                             *)

\* the values that follow -m on the command line
CliMs == {-2, -1, 0, 1, 3, Pow2(16)}

\* the options of the encode run: -m <value> given or not, -a given or not
CliArgs ==
    {[op |-> "ex5", m_given |-> FALSE, m_value |-> -1, a_flag |-> a, exit |-> -1] :
        a \in BOOLEAN}
    \cup {[op |-> "ex5", m_given |-> TRUE, m_value |-> m, a_flag |-> a, exit |-> -1] :
        m \in CliMs, a \in BOOLEAN}

InitX ==
    /\ pc = "x_start"
    /\ err = "none"
    /\ g = NoGolomb
    /\ bs = NoStream
    /\ data \in Images
    /\ out = NoImage
    /\ call \in CliArgs
    /\ file = NoFile
    /\ marks = NoMarks
    /\ codec = NoCodec
    /\ hdr = NoHeader
    /\ loc = NoLocals
    /\ infile = NoFile

\* main with -e up to codec.encode() (ex5.cpp 17-64): int m = -1 unless -m
\* gives a value; adaptive is -a, or m == -1
Ex5EncodeMain ==
    /\ pc = "x_start"
    /\ LET m        == IF call.m_given THEN call.m_value ELSE -1
           adaptive == call.a_flag \/ m = -1
       IN  IF m # -1 /\ adaptive
           THEN /\ call' = [call EXCEPT !.exit = 1]
                /\ pc' = "x_exit"
                /\ UNCHANGED <<codec, err>>
           ELSE LET c == ImageCodecNew(m, adaptive)
                IN  /\ codec' = c.obj
                    /\ err' = c.exc
                    /\ call' = IF c.exc = "none" THEN call ELSE [call EXCEPT !.exit = 1]
                    /\ pc' = IF c.exc = "none" THEN "i_ready" ELSE "x_exit"
    /\ UNCHANGED <<g, bs, data, out, file, marks, hdr, loc, infile>>

\* codec.encode() returned: return 0 (ex5.cpp 65, 75)
Ex5EncodeReturn ==
    /\ pc = "i_encoded"
    /\ call' = [call EXCEPT !.exit = 0]
    /\ pc' = "x_encoded"
    /\ UNCHANGED <<err, g, bs, data, out, file, marks, codec, hdr, loc, infile>>

\* main with -d up to codec.decode() (ex5.cpp 17-67), on the encoded file
Ex5DecodeMain ==
    /\ pc = "x_encoded"
    /\ infile' = file
    /\ codec' = ImageCodecForDecode
    /\ hdr' = NoHeader
    /\ g' = NoGolomb
    /\ call' = [call EXCEPT !.exit = -1]
    /\ pc' = "i_dec_ready"
    /\ UNCHANGED <<err, bs, data, out, file, marks, loc>>

\* codec.decode() returned or threw: return 0, or the handler's return 1
\* (ex5.cpp 68-75)
Ex5DecodeReturn ==
    /\ pc \in {"i_done", "i_dec_failed"}
    /\ call' = [call EXCEPT !.exit = IF pc = "i_done" THEN 0 ELSE 1]
    /\ pc' = "x_exit"
    /\ UNCHANGED <<err, g, bs, data, out, file, marks, codec, hdr, loc, infile>>

NextX ==
    \/ Ex5EncodeMain
    \/ IEncodeOpen
    \/ IEncodeBlock
    \/ IEncodeClose
    \/ Ex5EncodeReturn
    \/ Ex5DecodeMain
    \/ IDecodeOpen
    \/ IDecodeRow
    \/ IDecodeClose
    \/ Ex5DecodeReturn

SpecEx5 == InitX /\ [][NextX]_vars

\* C12: a fixed-m request with m <= 0 is refused.  Once main has acted on a
\* command line whose -m value is <= 0, the run has ended with exit code 1,
\* no codec was built and nothing was encoded.
NonPositiveMRefused ==
    (call.m_given /\ call.m_value <= 0 /\ pc # "x_start") =>
        /\ pc = "x_exit"
        /\ call.exit = 1
        /\ codec = NoCodec
        /\ file = NoFile

\* the part of C12 that holds: the constructor called with adaptive = false
\* and m <= 0 throws, and main then returns 1 without encoding
NonPositiveFixedMThrows ==
    (call.m_given /\ call.m_value <= 0 /\ call.m_value # -1 /\ pc # "x_start") =>
        /\ pc = "x_exit"
        /\ call.exit = 1
        /\ file = NoFile

----------------------------------------------------------------------------
(* The adaptive branch of the block loop on its own: calculate_m on a      *)
(* block of residuals, then the block coded with that m                    *)
(* (audio_codec.cpp 123-131, image_codec.cpp 119-127)                      *)

\* residuals per block
MaxBlock == 3

\* residual values of the blocks
BlockResiduals == {-6, -3, 0, 1, 4}

RECURSIVE BlocksUpTo(_)
BlocksUpTo(n) ==
    IF n = 0 THEN {<<>>}
    ELSE LET shorter == BlocksUpTo(n - 1)
         IN  shorter \cup {Append(b, r) : b \in {y \in shorter : Len(y) = n - 1},
                                          r \in BlockResiduals}

InitE ==
    /\ pc = "e_start"
    /\ err = "none"
    /\ g = GolombNew(1, INTERLEAVING).obj
    /\ bs = BitStream(NewFile(<<>>), STREAM_WRITE)
    /\ data \in BlocksUpTo(MaxBlock)
    /\ out = <<>>
    /\ call = NoCall
    /\ file = NoFile
    /\ marks = NoMarks
    /\ CodecIdle

\* int m = calculate_m(block), in the audio and in the image codec
ECalculate ==
    /\ pc = "e_start"
    /\ call' = [op |-> "calculate_m", audio_m |-> calculate_m(data),
                image_m |-> image_calculate_m(data)]
    /\ pc' = "e_calculated"
    /\ UNCHANGED <<err, g, bs, data, out, file, marks, codecVars>>

\* bs.write_n_bits(m, 16); golomb.set_m(m)
ESetM ==
    /\ pc = "e_calculated"
    /\ bs' = write_n_bits(bs, call.audio_m, 16)
    /\ g' = set_m(g, call.audio_m).obj
    /\ err' = set_m(g, call.audio_m).exc
    /\ marks' = [marks EXCEPT !.w = <<BitsDone(bs')>>]
    /\ pc' = "e_m_set"
    /\ UNCHANGED <<data, out, call, file, codecVars>>

\* for (int residual : block) golomb.encode(residual, bs)
EEncodeBlock ==
    /\ pc = "e_m_set"
    /\ bs' = EncodeAll(g, data, bs)
    /\ marks' = [marks EXCEPT !.w = Append(@, BitsDone(bs'))]
    /\ pc' = "e_encoded"
    /\ UNCHANGED <<err, g, data, out, call, file, codecVars>>

NextE ==
    \/ ECalculate
    \/ ESetM
    \/ EEncodeBlock

SpecEstimator == InitE /\ [][NextE]_vars

\* bits of the code words of a block under m, interleaving mode
BlockBits(m, block) ==
    BitsDone(EncodeAll(GolombNew(m, INTERLEAVING).obj, block,
                       BitStream(NewFile(<<>>), STREAM_WRITE)))

\* the least total code length of a block over m in 1..256
MinBlockBits(block) ==
    LET lens == {BlockBits(m, block) : m \in 1..256}
    IN  CHOOSE l \in lens : \A k \in lens : l <= k

\* C13: adaptive m is close to optimal.  The bits the block loop emitted for
\* the residuals of a block under the estimator's m are at most 5% more than
\* the least total code length of that block over m in 1..256.
EstimatorWithinFivePercent ==
    pc = "e_encoded" =>
        100 * (marks.w[2] - marks.w[1]) <= 105 * MinBlockBits(data)

----------------------------------------------------------------------------
(* test_coding(m, mode, data) of ex3.cpp on given test vectors              *)

\* the data of the calls: the scenarios of the specification, and the
\* vectors of main (the first of them up to -15)
TestVectors ==
    {<<0, -1, 1, -2, 2>>, <<-2>>, <<0, 1, 2, 3, 5, 10>>,
     <<0, 1, -1, 2, -2, 3, -3, 10, -15>>}

\* the m of the calls
VectorMs == {1, 3, 4, 10}

InitV ==
    /\ CodecIdle
    /\ pc = "v_start"
    /\ err = "none"
    /\ g = NoGolomb
    /\ bs = NoStream
    /\ data \in TestVectors
    /\ out = <<>>
    /\ call = NoCall
    /\ file = <<>>
    /\ marks = NoMarks

\* BitStream bs_write(fs_write, STREAM_WRITE); Golomb g(m, mode) (ex3.cpp 13-18)
VConstruct ==
    /\ pc = "v_start"
    /\ \E m \in VectorMs, mode \in NegativeHandling :
          g' = GolombNew(m, mode).obj
    /\ bs' = BitStream(NewFile(<<>>), STREAM_WRITE)
    /\ pc' = "v_encoding"
    /\ UNCHANGED <<err, data, out, call, file, marks>>
    /\ UNCHANGED codecVars

\* one turn of for (int val : data) g.encode(val, bs_write) (ex3.cpp 21-24)
VEncode ==
    /\ pc = "v_encoding"
    /\ Len(marks.w) < Len(data)
    /\ bs' = encode(g, data[Len(marks.w) + 1], bs)
    /\ marks' = [marks EXCEPT !.w = Append(@, BitsDone(bs'))]
    /\ UNCHANGED <<pc, err, g, data, out, call, file>>
    /\ UNCHANGED codecVars

\* bs_write.close() after the loop (ex3.cpp 26)
VCloseWriter ==
    /\ pc = "v_encoding"
    /\ Len(marks.w) = Len(data)
    /\ bs' = close(bs)
    /\ file' = bs'.fs.bytes
    /\ pc' = "v_closed"
    /\ UNCHANGED <<err, g, data, out, call, marks>>
    /\ UNCHANGED codecVars

\* BitStream bs_read(fs_read, STREAM_READ); Golomb g(m, mode) (ex3.cpp 34-39)
VOpenReader ==
    /\ pc = "v_closed"
    /\ bs' = BitStream(NewFile(file), STREAM_READ)
    /\ g' = GolombNew(g.m, g.mode).obj
    /\ pc' = "v_decoding"
    /\ UNCHANGED <<err, data, out, call, file, marks>>
    /\ UNCHANGED codecVars

\* the decoding turn after int val = g.decode(bs_read): d is what it returned
VDecodeEnd(d) ==
    /\ bs' = d.bs
    /\ err' = d.exc
    /\ pc' = IF d.exc # "none" THEN "v_failed" ELSE pc
    /\ out' = IF d.exc # "none" THEN out ELSE Append(out, d.val)
    /\ marks' = IF d.exc # "none" THEN marks
                ELSE [marks EXCEPT !.r = Append(@, BitsDone(d.bs))]

\* one turn of the decoding loop (ex3.cpp 43-47)
VDecode ==
    /\ pc = "v_decoding"
    /\ Len(out) < Len(data)
    /\ VDecodeEnd(decode(g, bs))
    /\ UNCHANGED <<g, data, call, file>>
    /\ UNCHANGED codecVars

\* bs_read.close() and the comparison (ex3.cpp 49-55)
VFinish ==
    /\ pc = "v_decoding"
    /\ Len(out) = Len(data)
    /\ bs' = close(bs)
    /\ pc' = "v_done"
    /\ UNCHANGED <<err, g, data, out, call, file, marks>>
    /\ UNCHANGED codecVars

NextV ==
    \/ VConstruct
    \/ VEncode
    \/ VCloseWriter
    \/ VOpenReader
    \/ VDecode
    \/ VFinish

SpecVectors == InitV /\ [][NextV]_vars

\* C14: Golomb m = 4, interleaving.  Encoding 0, -1, 1, -2, 2 moves the
\* writer to bit 3, 6, 9, 12 and 16 and leaves the two bytes
\* 10010111 01110100, no padding; decoding them with m = 4 returns
\* 0, -1, 1, -2, 2.
Interleaving4Vector ==
    (g.m = 4 /\ g.mode = INTERLEAVING /\ data = <<0, -1, 1, -2, 2>>) =>
        /\ IsPrefix(marks.w, <<3, 6, 9, 12, 16>>)
        /\ pc \in {"v_closed", "v_decoding", "v_done"} =>
              (file = <<151, 116>> /\ Len(marks.w) = 5)
        /\ pc = "v_decoding" => (err = "none" /\ IsPrefix(out, data))
        /\ pc \notin {"v_failed"}
        /\ pc = "v_done" => out = data

\* the five values were written and read back
Interleaving4VectorWitness ==
    /\ pc = "v_done"
    /\ g.m = 4
    /\ g.mode = INTERLEAVING
    /\ file = <<151, 116>>
    /\ out = <<0, -1, 1, -2, 2>>

\* the bits first..last of the file, most significant first, as a number
RECURSIVE FileBits(_, _, _)
FileBits(bytes, first, last) ==
    IF last < first THEN 0
    ELSE 2 * FileBits(bytes, first, last - 1) + FileBit(bytes, last)

\* the code word of the i-th value of the data follows the truncated-binary
\* rule: after the sign bit (sign/magnitude mode) and q zeros and a one, a
\* remainder r < cutoff stands in b - 1 bits and a remainder r >= cutoff
\* stands as r + cutoff in b bits; with m = 1 there are no remainder bits
TruncatedBinaryAt(i) ==
    LET n      == data[i]
        sm     == g.mode = SIGN_AND_MAGNITUDE
        u      == IF sm THEN Abs(n)
                  ELSE IF n >= 0 THEN 2 * n ELSE -2 * n - 1
        q      == u \div g.m
        r      == u % g.m
        b      == CeilLog2(g.m)
        cutoff == Pow2(b) - g.m
        from   == IF i = 1 THEN 0 ELSE marks.w[i - 1]
        head   == from + (IF sm THEN 1 ELSE 0) + q + 1
        to     == marks.w[i]
    IN  /\ sm => FileBit(file, from + 1) = (IF n < 0 THEN 1 ELSE 0)
        /\ FileBits(file, head - q, head) = 1
        /\ IF g.m = 1 THEN to = head
           ELSE IF r < cutoff
                THEN to = head + b - 1 /\ FileBits(file, head + 1, to) = r
                ELSE to = head + b /\ FileBits(file, head + 1, to) = r + cutoff

\* C15: truncated-binary remainder and the sign/magnitude scenario.  In
\* every closed file each code word follows the truncated-binary rule, and
\* with m = 3 in sign/magnitude mode the value -2 is the four bits 1 1 11
\* (the byte 11110000 after padding), which decode as -2.
TruncatedBinaryRule ==
    pc \in {"v_closed", "v_decoding", "v_done"} =>
        /\ \A i \in DOMAIN data : TruncatedBinaryAt(i)
        /\ (g.m = 3 /\ g.mode = SIGN_AND_MAGNITUDE /\ data = <<-2>>) =>
              /\ marks.w = <<4>>
              /\ file = <<240>>
              /\ pc = "v_done" => out = <<-2>>

\* the scenario: -2 under m = 3, sign/magnitude, written and read back
TruncatedBinaryRuleWitness ==
    /\ pc = "v_done"
    /\ g.m = 3
    /\ g.mode = SIGN_AND_MAGNITUDE
    /\ data = <<-2>>
    /\ file = <<240>>
    /\ out = <<-2>>

\* a file with remainders of both lengths under one m: with m = 3 the
\* magnitude 0 has r = 0 < cutoff, the magnitudes 1 and 2 have r >= cutoff
BothRemainderLengthsWitness ==
    /\ pc = "v_closed"
    /\ g.m = 3
    /\ g.mode = SIGN_AND_MAGNITUDE
    /\ data = <<0, -1, 1, -2, 2>>
    /\ marks.w = <<3, 7, 11, 15, 19>>

----------------------------------------------------------------------------
\* C16: BitStream close is idempotent.  The first close of a writer with
\* k > 0 pending bits adds exactly one byte to the full bytes written before
\* it and a writer with no pending bit adds none; a further close, of a
\* writer or of a reader, leaves the stream and the file as they were.
CloseIdempotent ==
    /\ [](pc \in {"b_closed", "b_closed_twice"} =>
            LET S == WidthSum(data, Len(data))
            IN  /\ Len(bs.fs.bytes) = (S \div 8) + (IF S % 8 > 0 THEN 1 ELSE 0)
                /\ bs.fs.bytes = file
                /\ ~bs.open)
    /\ [][(pc' \in {"b_closed_twice", "b_done_twice"}) =>
              (bs' = bs /\ file' = file)]_vars

\* a writer with one pending bit was closed twice: one padded byte
CloseIdempotentWitness ==
    /\ pc = "b_closed_twice"
    /\ data = <<<<1, 1>>>>
    /\ bs.fs.bytes = <<128>>

\* a writer with no pending bit was closed twice: one full byte, none added
CloseNothingPendingWitness ==
    /\ pc = "b_closed_twice"
    /\ WidthSum(data, Len(data)) = 8
    /\ Len(bs.fs.bytes) = 1

----------------------------------------------------------------------------
(* Lossy DCT audio codec (dct_encoder.cpp, dct_decoder.cpp) *)

\* DCTAudioEncoder::BLOCK_SIZE (1024 in the source), scaled
DCT_BLOCK_SIZE == 2

\* the most samples of an input file
MaxSamples == 3

\* the quality argument of dct_encoder in tenths: 0.1, 0.5, 1.0
Qualities == {1, 5, 10}

\* pow(10.0, -quality * 2.0), in millionths, for the qualities above
PowTenMinusTwice(quality) ==
    CASE quality = 1  -> 630957
      [] quality = 5  -> 100000
      [] quality = 10 -> 10000

\* DCTAudioEncoder(quality): m_quantization_step in millionths
DCTAudioEncoderNew(quality) ==
    [m_quantization_step |-> PowTenMinusTwice(quality),
     m_sample_rate |-> 0, m_num_samples |-> 0, m_block_size |-> 0]

\* the while loop over temp: the number of bits of a magnitude
RECURSIVE BitLength(_)
BitLength(temp) == IF temp <= 0 THEN 0 ELSE 1 + BitLength(temp \div 2)

\* one coefficient written with its length clamped and its magnitude not
encode_coefficient_unclipped(s, coeff) ==
    LET abs_val     == Abs(coeff)
        sign        == IF coeff < 0 THEN 1 ELSE 0
        bits_needed == Min(15, BitLength(abs_val))
        s1          == write_n_bits(s, bits_needed, 4)
    IN  IF bits_needed > 0
        THEN write_n_bits(write_bit(s1, sign), abs_val, bits_needed)
        ELSE s1

\* one turn of the loop of encode_coefficients (dct_encoder.cpp 53-78)
encode_coefficient(s, coeff) ==
    LET abs_val     == Abs(coeff)
        sign        == IF coeff < 0 THEN 1 ELSE 0
        length      == BitLength(abs_val)
        bits_needed == IF length > 15 THEN 15 ELSE length
        clipped     == IF length > 15 THEN Pow2(15) - 1 ELSE abs_val
        s1          == write_n_bits(s, bits_needed, 4)
    IN  IF bits_needed > 0
        THEN write_n_bits(write_bit(s1, sign), clipped, bits_needed)
        ELSE s1

\* encode_coefficients(bs, coeffs); w collects the bit position after each
\* coefficient
RECURSIVE encode_coefficients(_, _, _)
encode_coefficients(s, coeffs, w) ==
    IF coeffs = <<>> THEN [bs |-> s, w |-> w]
    ELSE CHOOSE t \in {encode_coefficients(s1, Tail(coeffs), Append(w, BitsDone(s1))) :
                           s1 \in {encode_coefficient(s, coeffs[1])}} : TRUE

\* coeffs[i] = sign ? -abs_val : abs_val
DecodedMagnitude(sign, mb) ==
    [bs |-> mb.bs, val |-> IF sign # 0 THEN -mb.val ELSE mb.val]

\* the sign bit, then the magnitude in bits_needed bits
DecodedSign(sb, bits_needed) ==
    DecodedMagnitude(sb.bit, read_n_bits(sb.bs, bits_needed))

\* the 4-bit length, then nothing or the sign and the magnitude
DecodedLength(kb) ==
    IF kb.val = 0 THEN [bs |-> kb.bs, val |-> 0]
    ELSE DecodedSign(read_bit(kb.bs), kb.val)

\* one turn of the loop of decode_coefficients (dct_decoder.cpp 63-77)
decode_coefficient(s) == DecodedLength(read_n_bits(s, 4))

\* decode_coefficients(bs): m_block_size coefficients; r collects the bit
\* position after each coefficient
RECURSIVE decode_coefficients(_, _, _, _)
RECURSIVE DecodedCoefficient(_, _, _, _)
decode_coefficients(s, n, coeffs, r) ==
    IF n <= 0 THEN [bs |-> s, coeffs |-> coeffs, r |-> r]
    ELSE DecodedCoefficient(decode_coefficient(s), n, coeffs, r)

DecodedCoefficient(d, n, coeffs, r) ==
    decode_coefficients(d.bs, n - 1, Append(coeffs, d.val), Append(r, BitsDone(d.bs)))

\* static_cast<uint32_t>(m_quantization_step * 1000.0): the fraction is cut
q_step_fixed(enc) == enc.m_quantization_step \div 1000

\* the four header fields of encode() (dct_encoder.cpp 126-132)
DctWriteHeader(s, enc) ==
    write_n_bits(
        write_n_bits(
            write_n_bits(
                write_n_bits(s, enc.m_sample_rate, 32),
                enc.m_num_samples, 32),
            DCT_BLOCK_SIZE, 16),
        q_step_fixed(enc), 32)

DctHeaderStep(fixed, rate, samples, size) ==
    [bs |-> fixed.bs,
     dec |-> [m_quantization_step |-> fixed.val * 1000,
              m_sample_rate |-> rate, m_num_samples |-> samples,
              m_block_size |-> size],
     q_step_fixed |-> fixed.val]

DctHeaderSize(size, rate, samples) ==
    DctHeaderStep(read_n_bits(size.bs, 32), rate, samples, size.val)

DctHeaderSamples(samples, rate) ==
    DctHeaderSize(read_n_bits(samples.bs, 16), rate, samples.val)

DctHeaderRate(rate) == DctHeaderSamples(read_n_bits(rate.bs, 32), rate.val)

\* the four header fields of decode() (dct_decoder.cpp 92-97)
DctReadHeader(s) == DctHeaderRate(read_n_bits(s, 32))

\* (m_num_samples + BLOCK_SIZE - 1) / BLOCK_SIZE
num_blocks(samples, size) == (samples + size - 1) \div size

\* values a quantised coefficient takes: zero, small, the largest magnitude
\* of 15 bits, magnitudes above it
CoeffValues == {0, 1, -5, Pow2(15) - 1, Pow2(15), -40000}

\* quantize_coefficients(dct(block)) of each block of an input of n samples:
\* any first block, later blocks of one repeated value
QuantizedBlocks(n) ==
    {[b \in 1..num_blocks(n, DCT_BLOCK_SIZE) |->
          IF b = 1 THEN first ELSE [i \in 1..DCT_BLOCK_SIZE |-> c]] :
       first \in [1..DCT_BLOCK_SIZE -> CoeffValues], c \in {0, -5}}

SampleRates == {8000, 44100}

\* mono inputs, and one stereo input that encode() refuses
DctInputs ==
    UNION {{[channels |-> 1, samplerate |-> rate, frames |-> n, quantized |-> q] :
               rate \in SampleRates, q \in IF n = 0 THEN {<<>>} ELSE QuantizedBlocks(n)} :
             n \in 0..MaxSamples}
    \cup {[channels |-> 2, samplerate |-> 44100, frames |-> 1, quantized |-> <<>>]}

NoDctHeader ==
    [m_sample_rate |-> 0, m_num_samples |-> 0, m_block_size |-> 0, q_step_fixed |-> 0]

InitD ==
    /\ pc = "d_start"
    /\ err = "none"
    /\ g = NoGolomb
    /\ bs = NoStream
    /\ data \in DctInputs
    /\ out = <<>>
    /\ call = NoCall
    /\ file = <<>>
    /\ marks = NoMarks
    /\ codec = DCTAudioEncoderNew(5)
    /\ hdr = NoDctHeader
    /\ loc = [block |-> 0, num_blocks |-> 0]
    /\ infile = NoFile

\* main of dct_encoder.cpp: DCTAudioEncoder encoder(quality)
DConstruct ==
    /\ pc = "d_start"
    /\ \E quality \in Qualities :
          /\ codec' = DCTAudioEncoderNew(quality)
          /\ call' = [op |-> "dct_encoder", quality |-> quality]
    /\ pc' = "d_ready"
    /\ UNCHANGED <<err, g, bs, data, out, file, marks, hdr, loc, infile>>

\* encode() up to the block loop (dct_encoder.cpp 86-135)
DEncodeOpen ==
    /\ pc = "d_ready"
    /\ IF data.channels # 1
       THEN /\ err' = "not_mono"
            /\ pc' = "d_enc_failed"
            /\ UNCHANGED <<bs, codec, loc>>
       ELSE /\ codec' = [codec EXCEPT !.m_sample_rate = data.samplerate,
                                      !.m_num_samples = data.frames]
            /\ bs' = DctWriteHeader(BitStream(NewFile(<<>>), STREAM_WRITE), codec')
            /\ loc' = [block |-> 0,
                       num_blocks |-> num_blocks(data.frames, DCT_BLOCK_SIZE)]
            /\ pc' = "d_encoding"
            /\ UNCHANGED err
    /\ UNCHANGED <<g, data, out, call, file, marks, hdr, infile>>

\* one turn of the block loop of encode() (dct_encoder.cpp 138-162)
DEncodeBlock ==
    /\ pc = "d_encoding"
    /\ loc.block < loc.num_blocks
    /\ \E e \in {encode_coefficients(bs, data.quantized[loc.block + 1], marks.w)} :
          /\ bs' = e.bs
          /\ marks' = [marks EXCEPT !.w = e.w]
    /\ loc' = [loc EXCEPT !.block = @ + 1]
    /\ UNCHANGED <<pc, err, g, data, out, call, file, codec, hdr, infile>>

\* the end of encode(): bs.close(), fs.close() (dct_encoder.cpp 164-177)
DEncodeClose ==
    /\ pc = "d_encoding"
    /\ loc.block = loc.num_blocks
    /\ bs' = close(bs)
    /\ file' = bs'.fs.bytes
    /\ pc' = "d_encoded"
    /\ UNCHANGED <<err, g, data, out, call, marks, codec, hdr, loc, infile>>

DDecodeOpenEnd(h) ==
    /\ bs' = h.bs
    /\ codec' = h.dec
    /\ hdr' = [m_sample_rate |-> h.dec.m_sample_rate,
               m_num_samples |-> h.dec.m_num_samples,
               m_block_size |-> h.dec.m_block_size,
               q_step_fixed |-> h.q_step_fixed]
    /\ loc' = [block |-> 0,
               num_blocks |-> num_blocks(h.dec.m_num_samples, h.dec.m_block_size)]

\* decode() on the encoder's file up to the block loop (dct_decoder.cpp 83-111)
DDecodeOpen ==
    /\ pc = "d_encoded"
    /\ DDecodeOpenEnd(DctReadHeader(BitStream(NewFile(file), STREAM_READ)))
    /\ call' = [op |-> "dct_decoder", quality |-> call.quality]
    /\ pc' = "d_decoding"
    /\ UNCHANGED <<err, g, data, out, file, marks, infile>>

DDecodeBlockEnd(d) ==
    /\ bs' = d.bs
    /\ out' = Append(out, d.coeffs)
    /\ marks' = [marks EXCEPT !.r = d.r]

\* one turn of the block loop of decode() (dct_decoder.cpp 114-137)
DDecodeBlock ==
    /\ pc = "d_decoding"
    /\ loc.block < loc.num_blocks
    /\ DDecodeBlockEnd(decode_coefficients(bs, codec.m_block_size, <<>>, marks.r))
    /\ loc' = [loc EXCEPT !.block = @ + 1]
    /\ UNCHANGED <<pc, err, g, data, call, file, codec, hdr, infile>>

\* the end of decode(): bs.close(), fs.close() (dct_decoder.cpp 140-161)
DDecodeClose ==
    /\ pc = "d_decoding"
    /\ loc.block = loc.num_blocks
    /\ bs' = close(bs)
    /\ pc' = "d_done"
    /\ UNCHANGED <<err, g, data, out, call, file, marks, codec, hdr, loc, infile>>

NextD ==
    \/ DConstruct
    \/ DEncodeOpen
    \/ DEncodeBlock
    \/ DEncodeClose
    \/ DDecodeOpen
    \/ DDecodeBlock
    \/ DDecodeClose

SpecDct == InitD /\ [][NextD]_vars

\* the bits written before the first coefficient: 32 + 32 + 16 + 32
DctHeaderBits == 32 + 32 + 16 + 32

\* the i-th quantised coefficient of the input, in the order of the blocks
QuantizedAt(i) ==
    data.quantized[((i - 1) \div DCT_BLOCK_SIZE) + 1][((i - 1) % DCT_BLOCK_SIZE) + 1]

\* the i-th coefficient the decoder returned
DecodedAt(i) ==
    out[((i - 1) \div DCT_BLOCK_SIZE) + 1][((i - 1) % DCT_BLOCK_SIZE) + 1]

\* Q itself up to 2^15 - 1 in magnitude, sign(Q) * (2^15 - 1) above
Clipped(Q) ==
    IF Abs(Q) <= Pow2(15) - 1 THEN Q
    ELSE IF Q < 0 THEN -(Pow2(15) - 1) ELSE Pow2(15) - 1

\* the number of bits of |Q|, at most 15
ClampedLength(Q) ==
    IF Abs(Q) >= Pow2(15) THEN 15
    ELSE CHOOSE k \in 0..15 : Abs(Q) < Pow2(k) /\ (k > 0 => Abs(Q) >= Pow2(k - 1))

\* the code of the i-th coefficient in the file: the 4-bit length, then
\* nothing for length 0 and the sign bit and the magnitude otherwise
CoefficientCodeAt(i) ==
    LET Q    == QuantizedAt(i)
        from == IF i = 1 THEN DctHeaderBits ELSE marks.w[i - 1]
        k    == ClampedLength(Q)
    IN  /\ FileBits(file, from + 1, from + 4) = k
        /\ k = 0 => marks.w[i] = from + 4
        /\ k > 0 =>
              /\ FileBit(file, from + 5) = (IF Q < 0 THEN 1 ELSE 0)
              /\ FileBits(file, from + 6, from + 5 + k) = Abs(Clipped(Q))
              /\ marks.w[i] = from + 5 + k

\* C17: each quantised coefficient Q is written as the 4-bit length k, the
\* bit length of |Q| clamped to 15, followed by nothing when k = 0 and
\* otherwise by a sign bit (1 if negative) and k magnitude bits; decoding
\* returns Q for |Q| <= 2^15 - 1 and sign(Q) * (2^15 - 1) above, and the
\* decoder consumes exactly the bits the encoder wrote for each coefficient.
CoefficientCoding ==
    /\ pc \in {"d_encoded", "d_decoding", "d_done"} =>
          \A i \in 1..Len(marks.w) : CoefficientCodeAt(i)
    /\ pc \in {"d_decoding", "d_done"} =>
          /\ Len(marks.r) = Len(out) * DCT_BLOCK_SIZE
          /\ Len(marks.r) <= Len(marks.w)
          /\ \A i \in 1..Len(marks.r) :
                /\ marks.r[i] = marks.w[i]
                /\ DecodedAt(i) = Clipped(QuantizedAt(i))
    /\ pc = "d_done" => Len(marks.r) = Len(marks.w)

\* a block with a zero and a magnitude above 2^15 - 1 was written and read
CoefficientCodingWitness ==
    /\ pc = "d_done"
    /\ data.frames = 1
    /\ data.quantized[1][1] = -40000
    /\ data.quantized[1][2] = 0
    /\ out[1][1] = -(Pow2(15) - 1)
    /\ out[1][2] = 0
    /\ marks.r = marks.w

\* a magnitude of exactly 2^15 - 1 and one of 2^15 come back the same
CoefficientClampWitness ==
    /\ pc = "d_done"
    /\ data.frames = 1
    /\ data.quantized[1][1] = Pow2(15) - 1
    /\ data.quantized[1][2] = Pow2(15)
    /\ out[1][1] = out[1][2]

\* round(x / 1000) for x >= 0
RoundThousandth(x) == (x + 500) \div 1000

\* C18: the encoder writes the sample rate in 32 bits, the sample count in
\* 32 bits, the block size in 16 bits and the quantisation base as the
\* 32-bit integer round(q_base * 1000), in this order; the decoder reads the
\* same four fields in the same order and widths.
DctHeaderFields ==
    /\ pc \in {"d_encoded", "d_decoding", "d_done"} =>
          /\ Len(file) >= DctHeaderBits \div 8
          /\ FileBits(file, 1, 32) = data.samplerate
          /\ FileBits(file, 33, 64) = data.frames
          /\ FileBits(file, 65, 80) = DCT_BLOCK_SIZE
          /\ FileBits(file, 81, 112) = RoundThousandth(PowTenMinusTwice(call.quality))
    /\ pc \in {"d_decoding", "d_done"} =>
          hdr = [m_sample_rate |-> data.samplerate,
                 m_num_samples |-> data.frames,
                 m_block_size  |-> DCT_BLOCK_SIZE,
                 q_step_fixed  |-> RoundThousandth(PowTenMinusTwice(call.quality))]

\* the decoder reads the four fields the encoder wrote, whatever they hold
DctHeaderReadBack ==
    pc \in {"d_decoding", "d_done"} =>
       /\ hdr.m_sample_rate = FileBits(file, 1, 32)
       /\ hdr.m_num_samples = FileBits(file, 33, 64)
       /\ hdr.m_block_size = FileBits(file, 65, 80)
       /\ hdr.q_step_fixed = FileBits(file, 81, 112)
       /\ hdr.m_sample_rate = data.samplerate
       /\ hdr.m_num_samples = data.frames
       /\ hdr.m_block_size = DCT_BLOCK_SIZE

----------------------------------------------------------------------------
\* R is an integer nearest to (S / k) * 0.693147
NearestToScaledMean(R, S, k) ==
    2 * Abs(R * k * 1000000 - S * 693147) <= k * 1000000

\* C19: calculate_m returns 1 for an empty block and, for a block of k > 0
\* residuals, max(1, round((sum of |r_i| / k) * 0.693147)); the result is
\* at least 1 for every block, and the audio and the image codec compute the
\* same value for the same block.
CalculateMRule ==
    call.op = "calculate_m" =>
       /\ call.audio_m >= 1
       /\ call.image_m = call.audio_m
       /\ data = <<>> => call.audio_m = 1
       /\ data # <<>> =>
             \E R \in 0..SumAbs(data) :
                /\ NearestToScaledMean(R, SumAbs(data), Len(data))
                /\ call.audio_m = Max(1, R)

\* the block of the one residual 4: 4 * 0.693147 = 2.77 rounds to 3
CalculateMRuleWitness ==
    /\ pc = "e_calculated"
    /\ data = <<4>>
    /\ call.audio_m = 3
    /\ call.image_m = 3

\* the empty block gives 1, and so does a block whose scaled mean rounds to 0
CalculateMFloorWitness ==
    /\ pc = "e_calculated"
    /\ data \in {<<>>, <<0, 1>>}
    /\ call.audio_m = 1

----------------------------------------------------------------------------
(* The predictor on two-row images: an encoder run, then a decoder run     *)

\* the rows of the images: the grid 50 60 / 70 90 and rows that put the
\* upper-left neighbour above, below and between the other two, and rows
\* with the extreme pixels 0 and 255
MedRows == {<<50, 60>>, <<70, 90>>, <<90, 70>>, <<60, 60>>, <<0, 255>>, <<255, 0>>}

MedImages == {[rows |-> 2, cols |-> 2, px |-> p] : p \in [1..2 -> MedRows]}

\* the m of the fixed-m runs
MedMs == {16, 32}

InitM ==
    /\ pc = "i_start"
    /\ err = "none"
    /\ g = NoGolomb
    /\ bs = NoStream
    /\ data \in MedImages
    /\ out = NoImage
    /\ call = NoCall
    /\ file = NoFile
    /\ marks = NoMarks
    /\ codec = NoCodec
    /\ hdr = NoHeader
    /\ loc = NoLocals
    /\ infile = NoFile

\* ImageCodec codec(in, out, m, adaptive) with a fixed m, or adaptive
MConstruct ==
    /\ pc = "i_start"
    /\ \E adaptive \in BOOLEAN :
          \E m \in (IF adaptive THEN {-1} ELSE MedMs) :
             LET c == ImageCodecNew(m, adaptive)
             IN  /\ codec' = c.obj
                 /\ err' = c.exc
                 /\ pc' = IF c.exc = "none" THEN "i_ready" ELSE "i_enc_failed"
    /\ UNCHANGED <<g, bs, data, out, call, file, marks, hdr, loc, infile>>

NextM ==
    \/ MConstruct
    \/ IEncodeOpen
    \/ IEncodeBlock
    \/ IEncodeClose
    \/ IFeed
    \/ IDecodeOpen
    \/ IDecodeRow
    \/ IDecodeClose

SpecMed == InitM /\ [][NextM]_vars

\* the pixel of row r and column c counted from 1, 0 outside the image
Neighbour(img, r, c) == IF r < 1 \/ c < 1 THEN 0 ELSE img.px[r][c]

\* min(A,B) if C >= max(A,B), max(A,B) if C <= min(A,B), A + B - C otherwise
MedOf(A, B, C) ==
    LET lo == CHOOSE x \in {A, B} : \A y \in {A, B} : x <= y
        hi == CHOOSE x \in {A, B} : \A y \in {A, B} : x >= y
    IN  IF C >= hi THEN lo
        ELSE IF C <= lo THEN hi
             ELSE A + B - C

\* the prediction of the pixel (r, c) from the neighbours it has in img
MedAt(img, r, c) ==
    MedOf(Neighbour(img, r, c - 1), Neighbour(img, r - 1, c),
          Neighbour(img, r - 1, c - 1))

\* the residuals of all blocks in raster order
RECURSIVE RasterResiduals(_)
RasterResiduals(blocks) ==
    IF blocks = <<>> THEN <<>>
    ELSE blocks[1] \o RasterResiduals(Tail(blocks))

\* C20: with neighbours A (left), B (above), C (above-left), taken as 0
\* outside the image, the prediction is min(A,B) if C >= max(A,B), max(A,B)
\* if C <= min(A,B) and A + B - C otherwise; every residual of the encoder
\* is the pixel minus this prediction, the decoder rebuilds every pixel from
\* the same prediction on the same neighbours, and the residuals of the
\* grid 50 60 / 70 90 in raster order are 50, 10, 20, 20.
MedPredictor ==
    /\ pc \in {"i_encoding", "i_encoded", "i_dec_ready"} =>
          /\ Len(RasterResiduals(loc.blocks)) = data.rows * data.cols
          /\ \A r \in 1..data.rows, c \in 1..data.cols :
                RasterResiduals(loc.blocks)[(r - 1) * data.cols + c]
                   = data.px[r][c] - MedAt(data, r, c)
          /\ data.px = <<<<50, 60>>, <<70, 90>>>> =>
                RasterResiduals(loc.blocks) = <<50, 10, 20, 20>>
    /\ pc \in {"i_decoding", "i_done"} =>
          \A r \in 1..loc.r, c \in 1..data.cols :
             /\ loc.img.px[r][c] = data.px[r][c]
             /\ MedAt(loc.img, r, c) = MedAt(data, r, c)
    /\ pc = "i_done" => out = data

\* the encoder holds the residuals 50, 10, 20, 20 of the grid 50 60 / 70 90
MedPredictorWitness ==
    /\ pc = "i_encoding"
    /\ data.px = <<<<50, 60>>, <<70, 90>>>>
    /\ RasterResiduals(loc.blocks) = <<50, 10, 20, 20>>

\* the decoder rebuilt that grid
MedGridDecodedWitness ==
    /\ pc = "i_done"
    /\ data.px = <<<<50, 60>>, <<70, 90>>>>
    /\ out.px = <<<<50, 60>>, <<70, 90>>>>

\* the third case: the upper-left neighbour 70 lies between 50 and 90
MedBetweenWitness ==
    /\ pc = "i_encoding"
    /\ data.px = <<<<70, 90>>, <<50, 60>>>>
    /\ RasterResiduals(loc.blocks)[4] = 60 - (50 + 90 - 70)

----------------------------------------------------------------------------
\* the prediction lies between the left and the upper neighbour
PredictionBetween(A, B, C) ==
    /\ predict(A, B, C) >= Min(A, B)
    /\ predict(A, B, C) <= Max(A, B)

\* C21: for neighbours in 0..255 the prediction lies in [min(A,B), max(A,B)],
\* so every residual of the encoder lies in -255..255, and when the decoder
\* runs on the file the encoder left, residual + P is in 0..255 for every
\* pixel: the decoder's clamp never replaces a value.
MedRangeInvariant ==
    /\ pc \in {"i_encoding", "i_encoded", "i_dec_ready"} =>
          /\ \A r \in 1..data.rows, c \in 1..data.cols :
                PredictionBetween(Neighbour(data, r, c - 1), Neighbour(data, r - 1, c),
                                  Neighbour(data, r - 1, c - 1))
          /\ \A k \in 1..Len(RasterResiduals(loc.blocks)) :
                /\ RasterResiduals(loc.blocks)[k] >= -255
                /\ RasterResiduals(loc.blocks)[k] <= 255
    /\ (pc \in {"i_decoding", "i_done", "i_dec_failed"} /\ IntactFile /\ hdr # NoHeader) =>
          ~loc.clamped

----------------------------------------------------------------------------
(* The audio predictor on samples near 1000: an encoder run, then a decoder *)
(* run                                                                      *)

\* the frames of the inputs: those of the example and one with a sign change
PredictorFrames(channels) ==
    IF channels = 1 THEN {<<1000>>, <<1002>>, <<-1000>>}
    ELSE {<<1000, 1005>>, <<1002, 1007>>, <<-1000, 990>>}

RECURSIVE PredictorSeqs(_, _)
PredictorSeqs(channels, n) ==
    IF n = 0 THEN {<<>>}
    ELSE LET shorter == PredictorSeqs(channels, n - 1)
         IN  shorter \cup {Append(f, x) : f \in {y \in shorter : Len(y) = n - 1},
                                          x \in PredictorFrames(channels)}

PredictorWavs ==
    {[format |-> "PCM_16", channels |-> 1, samplerate |-> 44100, frames |-> f] :
        f \in PredictorSeqs(1, MaxFrames)}
    \cup {[format |-> "PCM_16", channels |-> 2, samplerate |-> 44100, frames |-> f] :
        f \in PredictorSeqs(2, MaxFrames)}

\* the m of the fixed-m runs
PredictorMs == {256}

InitP ==
    /\ pc = "a_start"
    /\ err = "none"
    /\ g = NoGolomb
    /\ bs = NoStream
    /\ data \in PredictorWavs
    /\ out = NoWav
    /\ call = NoCall
    /\ file = NoFile
    /\ marks = NoMarks
    /\ codec = NoCodec
    /\ hdr = NoHeader
    /\ loc = NoLocals
    /\ infile = NoFile

\* AudioCodec codec(in, out, m, adaptive) with a fixed m, or adaptive
PConstruct ==
    /\ pc = "a_start"
    /\ \E adaptive \in BOOLEAN :
          \E m \in (IF adaptive THEN {-1} ELSE PredictorMs) :
             LET c == AudioCodecNew(m, adaptive)
             IN  /\ codec' = c.obj
                 /\ err' = c.exc
                 /\ pc' = IF c.exc = "none" THEN "a_ready" ELSE "a_enc_failed"
    /\ UNCHANGED <<g, bs, data, out, call, file, marks, hdr, loc, infile>>

NextP ==
    \/ PConstruct
    \/ AEncodeOpen
    \/ AEncodeBlock
    \/ AEncodeClose
    \/ AFeed
    \/ ADecodeOpen
    \/ ADecodeBlock
    \/ ADecodeClose

SpecPredictor == InitP /\ [][NextP]_vars

\* the left sample of frame t of the input, 0 before the first frame
LeftAt(t) == IF t < 1 THEN 0 ELSE data.frames[t][1]

\* the residuals of the frame t of the input: x_t - x_(t-1) in mono,
\* L_t - L_(t-1) and then R_t - L_t in stereo
FrameResiduals(t) ==
    IF data.channels = 1 THEN <<LeftAt(t) - LeftAt(t - 1)>>
    ELSE <<LeftAt(t) - LeftAt(t - 1), data.frames[t][2] - LeftAt(t)>>

\* the residuals of the frames from..to of the input in the order of the frames
RECURSIVE ResidualsOf(_, _)
ResidualsOf(from, to) ==
    IF to < from THEN <<>>
    ELSE ResidualsOf(from, to - 1) \o FrameResiduals(to)

\* C22: in mono the residual of sample t is x_t - x_(t-1) with x_(-1) = 0;
\* in stereo the left residual is L_t - L_(t-1) with L_(-1) = 0 and the
\* right residual is R_t - L_t, in the order L, R, L, R; the frames
\* (1000,1005), (1002,1007) give 1000, 5, 2, 5; and the decoder inverts the
\* mapping: the frames it writes are the frames of the input.
AudioPredictorRule ==
    /\ (pc \in {"a_encoding", "a_encoded", "a_dec_ready"} /\ loc.pos > 0) =>
          /\ loc.residual_buffer =
                ResidualsOf(loc.pos - (Len(loc.residual_buffer) \div data.channels) + 1,
                            loc.pos)
          /\ Len(loc.residual_buffer) >= data.channels
          /\ (data.channels = 2 /\ loc.pos = 2 /\
              SubSeq(data.frames, 1, 2) = <<<<1000, 1005>>, <<1002, 1007>>>>
              /\ Len(loc.residual_buffer) = 4) =>
                loc.residual_buffer = <<1000, 5, 2, 5>>
    /\ pc \in {"a_decoding", "a_done"} =>
          /\ Len(out.frames) = Len(data.frames) - loc.todo
          /\ out.frames = SubSeq(data.frames, 1, Len(out.frames))
    /\ pc = "a_done" => out.frames = data.frames

\* the encoder holds the residuals 1000, 5, 2, 5 of (1000,1005), (1002,1007)
AudioPredictorRuleWitness ==
    /\ pc = "a_encoding"
    /\ data.channels = 2
    /\ data.frames = <<<<1000, 1005>>, <<1002, 1007>>>>
    /\ loc.residual_buffer = <<1000, 5, 2, 5>>

\* the decoder wrote these two frames
AudioPredictorDecodedWitness ==
    /\ pc = "a_done"
    /\ data.frames = <<<<1000, 1005>>, <<1002, 1007>>>>
    /\ out.frames = data.frames

\* a mono input of three samples was decoded
AudioPredictorMonoWitness ==
    /\ pc = "a_done"
    /\ data.frames = <<<<1000>>, <<1002>>, <<-1000>>>>
    /\ out.frames = data.frames

----------------------------------------------------------------------------
\* the frames the decoder has decoded in whole blocks
FramesDecoded == Len(data.frames) - loc.todo

\* C23: the previous-left-sample state is never reset at a block boundary.
\* In encode() it is the left sample of the last frame read, so the first
\* residual of a block after the first is taken against the last frame of
\* the block before; in decode(), after any number of decoded blocks, it
\* equals the encoder's state at the same frame index.
PredictorPersists ==
    /\ pc \in {"a_encoding", "a_encoded", "a_dec_ready"} =>
          /\ loc.pred_l = LeftAt(loc.pos)
          /\ loc.pos > 0 =>
                loc.residual_buffer[1] =
                   LET first == loc.pos - (Len(loc.residual_buffer) \div data.channels) + 1
                   IN  LeftAt(first) - LeftAt(first - 1)
    /\ pc \in {"a_decoding", "a_done"} =>
          loc.pred_l = LeftAt(FramesDecoded)

\* the decoder stands after the first of two blocks with the state the
\* encoder had there
PredictorPersistsWitness ==
    /\ pc = "a_decoding"
    /\ Len(data.frames) = BLOCK_SIZE + 1
    /\ FramesDecoded = BLOCK_SIZE
    /\ LeftAt(BLOCK_SIZE) # 0
    /\ loc.pred_l = LeftAt(BLOCK_SIZE)

\* the decoder finished the second block: its last frame came out right
PredictorSecondBlockWitness ==
    /\ pc = "a_done"
    /\ Len(data.frames) = BLOCK_SIZE + 1
    /\ LeftAt(BLOCK_SIZE) # 0
    /\ out.frames = data.frames

----------------------------------------------------------------------------
(* Both codecs: an audio session or an image session *)

InitC == InitA \/ InitI

NextC == NextA \/ NextI

SpecCodecs == InitC /\ [][NextC]_vars

\* the run is one of the audio codec
AudioRun == "frames" \in DOMAIN data

\* the residuals of the rows from..to of the input image in raster order
RECURSIVE RowsResiduals(_, _)
RowsResiduals(from, to) ==
    IF to < from THEN <<>>
    ELSE RowsResiduals(from, to - 1)
            \o [c \in 1..data.cols |-> data.px[to][c] - MedAt(data, to, c)]

\* blocks of the input: ceil(L / BLOCK_SIZE) in audio, ceil(H / BLOCK_SIZE_Y)
\* bands in an image
BlocksOfInput ==
    IF AudioRun THEN (Len(data.frames) + BLOCK_SIZE - 1) \div BLOCK_SIZE
    ELSE (data.rows + BLOCK_SIZE_Y - 1) \div BLOCK_SIZE_Y

\* the residuals of block k of the input: min(BLOCK_SIZE, remaining) frames,
\* or up to BLOCK_SIZE_Y rows
ResidualsOfBlock(k) ==
    IF AudioRun
    THEN ResidualsOf((k - 1) * BLOCK_SIZE + 1, Min(k * BLOCK_SIZE, Len(data.frames)))
    ELSE RowsResiduals((k - 1) * BLOCK_SIZE_Y + 1, Min(k * BLOCK_SIZE_Y, data.rows))

\* the stream position after the residuals of the block marked mk
BlockEnd(mk, k) == mk.first + BlockBits(mk.m, ResidualsOfBlock(k))

\* block k of the encoder's stream: in adaptive mode a 16-bit field holding
\* m, then the residuals of the block coded with that m; in fixed mode the
\* residuals alone
BlockFramedAt(k) ==
    LET mk    == marks.w[k]
        start == IF k = 1 THEN 0 ELSE BlockEnd(marks.w[k - 1], k - 1)
    IN  /\ mk.n = Len(ResidualsOfBlock(k))
        /\ IF file.hdr.adaptive
           THEN /\ mk.field = start
                /\ mk.first = start + 16
                /\ Len(file.bytes) > 0 =>
                      FileBits(file.bytes, mk.field + 1, mk.field + 16) = mk.m
           ELSE /\ mk.field = -1
                /\ mk.first = start

\* C24: in adaptive mode the stream holds exactly one 16-bit m field per
\* block, before the first residual of the block, and that m codes all
\* residuals of the block (audio: ceil(L / BLOCK_SIZE) blocks of
\* min(BLOCK_SIZE, remaining) frames; image: ceil(H / BLOCK_SIZE_Y) bands);
\* the decoder reads an m field at the same positions; in fixed mode the
\* stream holds no m field.
AdaptiveBlockFraming ==
    /\ Len(marks.w) <= BlocksOfInput
    /\ \A k \in 1..Len(marks.w) : BlockFramedAt(k)
    /\ pc \in {"a_encoded", "i_encoded"} =>
          /\ Len(marks.w) = BlocksOfInput
          /\ LET bits == IF marks.w = <<>> THEN 0
                         ELSE BlockEnd(marks.w[Len(marks.w)], Len(marks.w))
             IN  Len(file.bytes) = (bits + 7) \div 8
    /\ pc \in {"a_decoding", "a_done", "i_decoding", "i_done"} =>
          /\ Len(marks.r) <= Len(marks.w)
          /\ \A k \in 1..Len(marks.r) :
                IF hdr.adaptive THEN marks.r[k] = marks.w[k]
                ELSE marks.r[k].field = -1
    /\ pc \in {"a_done", "i_done"} => Len(marks.r) = Len(marks.w)

\* an adaptive audio file of two blocks was decoded: two fields, the second
\* after the residuals of the first block
AdaptiveBlockFramingWitness ==
    /\ pc = "a_done"
    /\ hdr.adaptive
    /\ Len(marks.w) = 2
    /\ marks.r = marks.w
    /\ marks.w[1].field = 0
    /\ marks.w[2].field > 16

\* an adaptive image file of two bands was decoded
AdaptiveBandFramingWitness ==
    /\ pc = "i_done"
    /\ hdr.adaptive
    /\ Len(marks.w) = 2
    /\ marks.r = marks.w
    /\ marks.w[2].field > 16

\* a fixed-m file of two blocks was decoded: no field
FixedFramingWitness ==
    /\ pc = "a_done"
    /\ ~hdr.adaptive
    /\ Len(marks.w) = 2
    /\ Len(marks.r) = 2
    /\ marks.w[2].field = -1

\* the bits of a byte sequence from the first up to bit n
FilePrefix(bytes, n) == [i \in 1..n |-> FileBit(bytes, i)]

\* encode() writes the header
HeaderWritten == file'.hdr # file.hdr

\* encode() returns
EncodeReturns == pc \in {"a_encoding", "i_encoding"} /\ pc' \in {"a_encoded", "i_encoded"}

\* one step of a codec run keeps the order of encode()
EncodeOrderingStep ==
    /\ HeaderWritten =>
          /\ pc \in {"a_ready", "i_ready"}
          /\ pc' \in {"a_encoding", "i_encoding"}
          /\ file.hdr = NoHeader
          /\ bs'.open /\ bs'.rw = STREAM_WRITE
          /\ BitsDone(bs') = 0
          /\ file'.bytes = <<>>
          /\ marks.w = <<>>
    /\ (pc \in {"a_encoding", "i_encoding"} /\ marks'.w # marks.w) =>
          /\ file.hdr # NoHeader
          /\ bs.open /\ bs'.open
          /\ pc' = pc
          /\ IsPrefix(Emitted(bs), Emitted(bs'))
          /\ file' = file
    /\ EncodeReturns =>
          /\ file.hdr # NoHeader
          /\ Len(marks.w) = BlocksOfInput
          /\ marks' = marks
          /\ bs.open /\ ~bs'.open
          /\ bs'.count = 0
          /\ file'.hdr = file.hdr
          /\ file'.bytes = bs'.fs.bytes
          /\ Len(file'.bytes) = (BitsDone(bs) + 7) \div 8
          /\ FilePrefix(file'.bytes, BitsDone(bs)) = Emitted(bs)
    /\ pc \notin {"a_ready", "i_ready", "a_encoding", "i_encoding"} => file' = file

\* C25: in every run of AudioCodec::encode or ImageCodec::encode that
\* returns normally the header is written once and before any bit-stream
\* data, every residual is written before the close of the BitStream, and
\* that close comes before the sink is closed: no written bit is left in
\* the buffer when encode returns.
EncodeOrdering == [][EncodeOrderingStep]_vars

\* encode() returned from an input of two blocks whose bits do not fill the
\* last byte: the close wrote the buffered bits out
EncodeOrderingWitness ==
    /\ pc = "a_encoded"
    /\ Len(marks.w) = 2
    /\ ~bs.open /\ bs.count = 0
    /\ file.hdr.magic = "GACL"
    /\ file.bytes = bs.fs.bytes
    /\ BlockEnd(marks.w[2], 2) % 8 # 0
    /\ Len(file.bytes) = (BlockEnd(marks.w[2], 2) + 7) \div 8

\* the same for an image
EncodeOrderingImageWitness ==
    /\ pc = "i_encoded"
    /\ Len(marks.w) = 2
    /\ ~bs.open /\ bs.count = 0
    /\ file.hdr.magic = "GICL"
    /\ file.bytes = bs.fs.bytes
    /\ BlockEnd(marks.w[2], 2) % 8 # 0

----------------------------------------------------------------------------
(* decode() as a function of the file it is given *)

\* the block loop of AudioCodec::decode from one block on
\* (audio_codec.cpp 178-205): what was thrown, and the frames written
RECURSIVE AudioDecodeBlocks(_, _, _, _, _, _)
RECURSIVE AudioBlockDecoded(_, _, _, _, _, _)
AudioDecodeBlocks(h, gol, s, pred_l, todo, frames) ==
    IF todo = 0 THEN [exc |-> "none", frames |-> frames]
    ELSE IF h.adaptive
         THEN AudioBlockDecoded(h, set_m(gol, Max(1, read_n_bits(s, 16).val)).obj,
                                read_n_bits(s, 16).bs, pred_l, todo, frames)
         ELSE AudioBlockDecoded(h, gol, s, pred_l, todo, frames)

\* the block from its frame loop on
AudioBlockDecoded(h, gol, s1, pred_l, todo, frames) ==
    LET d == CHOOSE x \in {AudioDecodeFrames(gol, s1, h.num_channels, pred_l,
                                              Min(BLOCK_SIZE, todo), <<>>)} : TRUE
    IN  IF d.exc # "none" THEN [exc |-> d.exc, frames |-> frames]
        ELSE AudioDecodeBlocks(h, gol, d.bs, d.pred_l, todo - Min(BLOCK_SIZE, todo),
                               frames \o d.frames)

\* AudioCodec::decode on the file f (audio_codec.cpp 140-211)
AudioDecodeOutcome(f) ==
    IF ~AudioHeaderAccepted(f.hdr) THEN [exc |-> "runtime_error", frames |-> <<>>]
    ELSE IF GolombNew(f.hdr.fixed_m, INTERLEAVING).exc # "none"
         THEN [exc |-> GolombNew(f.hdr.fixed_m, INTERLEAVING).exc, frames |-> <<>>]
         ELSE AudioDecodeBlocks(f.hdr, GolombNew(f.hdr.fixed_m, INTERLEAVING).obj,
                                BitStream(NewFile(f.bytes), STREAM_READ), 0,
                                f.hdr.total_samples, <<>>)

\* the row loop of ImageCodec::decode from row r on (image_codec.cpp 173-195):
\* what was thrown, and the image rebuilt
RECURSIVE ImageDecodeRows(_, _, _, _, _)
RECURSIVE ImageRowDecoded(_, _, _, _, _)
ImageDecodeRows(h, gol, s, img, r) ==
    IF r >= img.rows THEN [exc |-> "none", img |-> img]
    ELSE IF h.adaptive /\ r % BLOCK_SIZE_Y = 0
         THEN ImageRowDecoded(h, set_m(gol, Max(1, read_n_bits(s, 16).val)).obj,
                              read_n_bits(s, 16).bs, img, r)
         ELSE ImageRowDecoded(h, gol, s, img, r)

\* the row from its column loop on
ImageRowDecoded(h, gol, s1, img, r) ==
    LET d == CHOOSE x \in {ImageDecodeRow(gol, s1, img, r, 0, FALSE)} : TRUE
    IN  IF d.exc # "none" THEN [exc |-> d.exc, img |-> NoImage]
        ELSE ImageDecodeRows(h, gol, d.bs, d.img, r + 1)

\* ImageCodec::decode on the file f (image_codec.cpp 155-211)
ImageDecodeOutcome(f) ==
    IF ~ImageHeaderAccepted(f.hdr) THEN [exc |-> "runtime_error", img |-> NoImage]
    ELSE IF GolombNew(IF f.hdr.adaptive THEN 1 ELSE f.hdr.fixed_m, INTERLEAVING).exc # "none"
         THEN [exc |-> "invalid_argument", img |-> NoImage]
         ELSE ImageDecodeRows(f.hdr,
                              GolombNew(IF f.hdr.adaptive THEN 1 ELSE f.hdr.fixed_m,
                                        INTERLEAVING).obj,
                              BitStream(NewFile(f.bytes), STREAM_READ),
                              Mat(f.hdr.height, f.hdr.width), 0)

\* the runs of decode() end as the functions say
DecodeOutcomeAgrees ==
    /\ pc = "a_done" => AudioDecodeOutcome(infile) = [exc |-> "none", frames |-> out.frames]
    /\ pc = "a_dec_failed" => AudioDecodeOutcome(infile).exc = err
    /\ pc = "i_done" => ImageDecodeOutcome(infile) = [exc |-> "none", img |-> out]
    /\ pc = "i_dec_failed" => ImageDecodeOutcome(infile).exc = err

\* values of the header's 16-bit fixed_m field
FixedMFields == {0, 1, 1000, Pow2(16) - 1}

\* the file f with another fixed_m in its header
WithFixedM(f, fm) == [f EXCEPT !.hdr.fixed_m = fm]

\* the image decoder gives the same result for every fixed_m of an adaptive file
ImageIgnoresFixedM ==
    (pc = "i_dec_ready" /\ infile.hdr.adaptive) =>
        \A fm \in FixedMFields :
            ImageDecodeOutcome(WithFixedM(infile, fm)) = ImageDecodeOutcome(infile)

\* the audio decoder gives the same result for every fixed_m above 0 of an
\* adaptive file
AudioIgnoresPositiveFixedM ==
    (pc = "a_dec_ready" /\ infile.hdr.adaptive) =>
        \A fm, fn \in FixedMFields \ {0} :
            AudioDecodeOutcome(WithFixedM(infile, fm))
                = AudioDecodeOutcome(WithFixedM(infile, fn))

\* C26: in adaptive mode the result of decode does not depend on the
\* header's fixed_m: two files that differ only in fixed_m (any 16-bit
\* value, 0 too) and are adaptive decode to the same output, in the audio
\* and in the image decoder.
AdaptiveIgnoresFixedM ==
    /\ (pc = "a_dec_ready" /\ infile.hdr.adaptive) =>
          \A fm \in FixedMFields :
              AudioDecodeOutcome(WithFixedM(infile, fm)) = AudioDecodeOutcome(infile)
    /\ ImageIgnoresFixedM

\* C27: for every fixed m > 0 that the encoding constructor accepts, the m
\* in the header's 16-bit fixed_m field, which the decoder uses, is the m
\* with which the encoder coded the residuals, so that the fixed-mode round
\* trip holds for every accepted m, those from 65536 on too.
FixedMAgreement ==
    /\ (pc \in {"a_encoding", "a_encoded", "i_encoding", "i_encoded"}
            /\ ~codec.m_adaptive) =>
          /\ g.m = codec.m_fixed_m
          /\ file.hdr.fixed_m = codec.m_fixed_m
    /\ (pc \in {"a_decoding", "a_done", "i_decoding", "i_done", "a_dec_failed",
                "i_dec_failed"} /\ IntactFile /\ ~file.hdr.adaptive) =>
          /\ err = "none"
          /\ g.m = hdr.fixed_m
          /\ \A k \in 1..Len(marks.r) : marks.r[k].m = marks.w[k].m
          /\ pc = "a_done" => out.frames = data.frames
          /\ pc = "i_done" => out = [rows |-> data.rows, cols |-> data.cols, px |-> data.px]

----------------------------------------------------------------------------
(* Adaptive runs on inputs at the ends of the sample range: audio frames   *)
(* of -32768, 0 and 32767, images of the pixels 0 and 255 among others     *)

ExtremeFrames(channels) ==
    IF channels = 1 THEN {<<Pow2(15) - 1>>, <<-Pow2(15)>>, <<0>>}
    ELSE {<<Pow2(15) - 1, -Pow2(15)>>, <<-Pow2(15), Pow2(15) - 1>>, <<0, 0>>}

RECURSIVE ExtremeSeqs(_, _)
ExtremeSeqs(channels, n) ==
    IF n = 0 THEN {<<>>}
    ELSE LET shorter == ExtremeSeqs(channels, n - 1)
         IN  shorter \cup {Append(f, x) : f \in {y \in shorter : Len(y) = n - 1},
                                          x \in ExtremeFrames(channels)}

ExtremeWavs ==
    {[format |-> "PCM_16", channels |-> ch, samplerate |-> 44100, frames |-> f] :
        ch \in {1}, f \in ExtremeSeqs(1, MaxFrames)}
    \cup {[format |-> "PCM_16", channels |-> ch, samplerate |-> 44100, frames |-> f] :
        ch \in {2}, f \in ExtremeSeqs(2, MaxFrames)}

InitR ==
    \/ InitM
    \/ /\ pc = "a_start"
       /\ err = "none"
       /\ g = NoGolomb
       /\ bs = NoStream
       /\ data \in ExtremeWavs
       /\ out = NoWav
       /\ call = NoCall
       /\ file = NoFile
       /\ marks = NoMarks
       /\ codec = NoCodec
       /\ hdr = NoHeader
       /\ loc = NoLocals
       /\ infile = NoFile

\* AudioCodec codec(in, out, m, true)
RConstruct ==
    /\ pc = "a_start"
    /\ LET c == AudioCodecNew(-1, TRUE)
       IN  /\ codec' = c.obj
           /\ err' = c.exc
           /\ pc' = IF c.exc = "none" THEN "a_ready" ELSE "a_enc_failed"
    /\ UNCHANGED <<g, bs, data, out, call, file, marks, hdr, loc, infile>>

NextR ==
    \/ RConstruct
    \/ AEncodeOpen
    \/ AEncodeBlock
    \/ AEncodeClose
    \/ AFeed
    \/ ADecodeOpen
    \/ ADecodeBlock
    \/ ADecodeClose
    \/ NextM

SpecAdaptive == InitR /\ [][NextR]_vars

\* the largest magnitude a residual can have: 65535 in audio, 255 in an image
ResidualLimit == IF AudioRun THEN Pow2(16) - 1 ELSE Pow2(8) - 1

\* C28: the adaptive m fits its 16-bit field.  For every block of audio
\* residuals in -65535..65535 or image residuals in -255..255, calculate_m
\* returns a value in 1..65535, so that the decoder reads from the field
\* the value the encoder used and never takes its clamp of 0 to 1 on a
\* stream of the encoder.
AdaptiveMFits ==
    file.hdr # NoHeader /\ file.hdr.adaptive =>
        /\ \A k \in 1..Len(marks.w) :
              /\ \A j \in DOMAIN ResidualsOfBlock(k) :
                    Abs(ResidualsOfBlock(k)[j]) <= ResidualLimit
              /\ marks.w[k].m >= 1
              /\ marks.w[k].m <= Pow2(16) - 1
              /\ Len(file.bytes) > 0 =>
                    FileBits(file.bytes, marks.w[k].field + 1, marks.w[k].field + 16)
                        = marks.w[k].m
        /\ pc \in {"a_decoding", "a_done", "i_decoding", "i_done"} =>
              \A k \in 1..Len(marks.r) :
                 /\ marks.r[k].m = marks.w[k].m
                 /\ FileBits(infile.bytes, marks.r[k].field + 1, marks.r[k].field + 16) >= 1

\* a stereo block with residuals of magnitude 65535 was read back with an m
\* that uses the top bit of the field
AdaptiveMFitsWitness ==
    /\ pc = "a_done"
    /\ hdr.adaptive
    /\ marks.r = marks.w
    /\ \E k \in 1..Len(marks.w) :
          /\ marks.w[k].m >= Pow2(15)
          /\ \E j \in DOMAIN ResidualsOfBlock(k) :
                Abs(ResidualsOfBlock(k)[j]) = Pow2(16) - 1

\* an image band with a residual of magnitude 255 was read back
AdaptiveMFitsImageWitness ==
    /\ pc = "i_done"
    /\ hdr.adaptive
    /\ marks.r = marks.w
    /\ \E k \in 1..Len(marks.w) :
          \E j \in DOMAIN ResidualsOfBlock(k) : Abs(ResidualsOfBlock(k)[j]) = Pow2(8) - 1

----------------------------------------------------------------------------
(* Decoder runs on any file: the encoder's own, cut short, or made up; and *)
(* the loop of Golomb::read_unary bit by bit                               *)

\* bytes of the longest made-up file
MaxBytes == 2

\* byte values of the made-up files: no one bit, a one bit last, only one bits
GarbageByteValues == {0, 1, Pow2(8) - 1}

GarbageBytes == UNION {[1..n -> GarbageByteValues] : n \in 0..MaxBytes}

\* headers that read_codec_header may find in a file (audio_codec.h 12-21)
GarbageAudioHeaders ==
    {[magic |-> mg, version |-> 1, num_channels |-> ch, sample_rate |-> 44100,
      bits_per_sample |-> 16, total_samples |-> n, adaptive |-> ad, fixed_m |-> fm] :
        mg \in {"GACL"}, ch \in {1, 2, 3}, n \in {0, 3, Pow2(30)},
        ad \in BOOLEAN, fm \in {0, 1, Pow2(16) - 1}}

\* the same for an image file (image_codec.h 12-19)
GarbageImageHeaders ==
    {[magic |-> mg, version |-> 1, width |-> w, height |-> h, adaptive |-> ad,
      fixed_m |-> fm] :
        mg \in {"GICL"}, w \in {0, 2}, h \in {0, 3},
        ad \in BOOLEAN, fm \in {0, 1, Pow2(16) - 1}}

\* inputs of the encoder runs: no frame is repeated at once
ChangingWavs ==
    {w \in PredictorWavs :
        \A i \in 1..(Len(w.frames) - 1) : w.frames[i] # w.frames[i + 1]}

\* the runs that can be started: an encoding codec on an input, a decoding
\* codec on a made-up file, Golomb::read_unary on a stream over made-up bytes
Starts ==
    {[pc |-> "a_start", data |-> w, out |-> NoWav, codec |-> NoCodec,
      infile |-> NoFile, bs |-> NoStream, loc |-> NoLocals] : w \in ChangingWavs}
    \cup {[pc |-> "i_start", data |-> img, out |-> NoImage, codec |-> NoCodec,
           infile |-> NoFile, bs |-> NoStream, loc |-> NoLocals] : img \in MedImages}
    \cup {[pc |-> "a_dec_ready",
           data |-> [format |-> "PCM_16", channels |-> 1, samplerate |-> 44100,
                     frames |-> <<>>],
           out |-> NoWav, codec |-> AudioCodecForDecode,
           infile |-> [hdr |-> h, bytes |-> b], bs |-> NoStream, loc |-> NoLocals] :
              h \in GarbageAudioHeaders, b \in GarbageBytes}
    \cup {[pc |-> "i_dec_ready", data |-> NoImage, out |-> NoImage,
           codec |-> ImageCodecForDecode,
           infile |-> [hdr |-> h, bytes |-> b], bs |-> NoStream, loc |-> NoLocals] :
              h \in GarbageImageHeaders, b \in GarbageBytes}
    \cup {[pc |-> "r_unary", data |-> <<>>, out |-> <<>>, codec |-> NoCodec,
           infile |-> NoFile, bs |-> BitStream(NewFile(b), STREAM_READ),
           loc |-> [n |-> 0]] : b \in GarbageBytes}

\* no program runs yet
InitT ==
    /\ pc = "t_start"
    /\ err = "none"
    /\ g = NoGolomb
    /\ bs = NoStream
    /\ data = <<>>
    /\ out = <<>>
    /\ call = NoCall
    /\ file = NoFile
    /\ marks = NoMarks
    /\ codec = NoCodec
    /\ hdr = NoHeader
    /\ loc = NoLocals
    /\ infile = NoFile

\* a run is started
TStart ==
    /\ pc = "t_start"
    /\ \E s \in Starts :
          /\ pc' = s.pc
          /\ data' = s.data
          /\ out' = s.out
          /\ codec' = s.codec
          /\ infile' = s.infile
          /\ bs' = s.bs
          /\ loc' = s.loc
    /\ UNCHANGED <<err, g, call, file, marks, hdr>>

\* the decoder is given the first k bytes of the encoder's audio file
TTruncateAudio ==
    /\ pc = "a_encoded"
    /\ \E k \in 0..(Len(file.bytes) - 1) :
          infile' = [file EXCEPT !.bytes = SubSeq(@, 1, k)]
    /\ codec' = AudioCodecForDecode
    /\ hdr' = NoHeader
    /\ g' = NoGolomb
    /\ pc' = "a_dec_ready"
    /\ UNCHANGED <<err, bs, data, out, call, file, marks, loc>>

\* the decoder is given the first k bytes of the encoder's image file
TTruncateImage ==
    /\ pc = "i_encoded"
    /\ \E k \in 0..(Len(file.bytes) - 1) :
          infile' = [file EXCEPT !.bytes = SubSeq(@, 1, k)]
    /\ codec' = ImageCodecForDecode
    /\ hdr' = NoHeader
    /\ g' = NoGolomb
    /\ pc' = "i_dec_ready"
    /\ UNCHANGED <<err, bs, data, out, call, file, marks, loc>>

\* one turn of the loop of read_unary with the end of the stream taken for
\* a zero bit
TReadUnaryBitNoSentinel ==
    /\ pc = "r_unary"
    /\ loc.n <= 8 * Len(bs.fs.bytes)
    /\ LET rb == read_bit(bs)
       IN  /\ bs' = rb.bs
           /\ IF rb.bit = 1
              THEN /\ pc' = "r_returned"
                   /\ UNCHANGED loc
              ELSE /\ loc' = [loc EXCEPT !.n = @ + 1]
                   /\ UNCHANGED pc
    /\ UNCHANGED <<err, g, data, out, call, file, marks, codec, hdr, infile>>

\* one turn of while ((bit = bs.read_bit()) == 0) n++, and what follows the
\* loop (golomb.cpp 15-23); no run of zero bits is longer than the stream
TReadUnaryBit ==
    /\ pc = "r_unary"
    /\ loc.n <= 8 * Len(bs.fs.bytes)
    /\ LET rb == read_bit(bs)
       IN  /\ bs' = rb.bs
           /\ IF rb.bit = 0
              THEN /\ loc' = [loc EXCEPT !.n = @ + 1]
                   /\ UNCHANGED <<pc, err>>
              ELSE /\ pc' = IF rb.bit = EOF THEN "r_thrown" ELSE "r_returned"
                   /\ err' = IF rb.bit = EOF THEN "runtime_error" ELSE err
                   /\ UNCHANGED loc
    /\ UNCHANGED <<g, data, out, call, file, marks, codec, hdr, infile>>

NextT ==
    \/ TStart
    \/ NextP
    \/ NextM
    \/ TTruncateAudio
    \/ TTruncateImage
    \/ TReadUnaryBit

\* the steps of decode() and of the loop of read_unary
DecodeStep ==
    \/ ADecodeOpen
    \/ ADecodeBlock
    \/ ADecodeClose
    \/ IDecodeOpen
    \/ IDecodeRow
    \/ IDecodeClose
    \/ TReadUnaryBit

\* decode() and read_unary run on once entered: a step of theirs that can
\* be taken is taken
SpecTerminates == InitT /\ [][NextT]_vars /\ WF_vars(DecodeStep)

DecodeEntered == pc \in {"a_dec_ready", "i_dec_ready"}

DecodeEnded == pc \in {"a_done", "a_dec_failed", "i_done", "i_dec_failed"}

\* the loop of read_unary, run bit by bit, ends as read_unary does on the
\* stream it was entered with
UnaryLoopAgrees ==
    pc \in {"r_returned", "r_thrown"} =>
        LET u == read_unary(BitStream(NewFile(bs.fs.bytes), STREAM_READ))
        IN  /\ u.exc = err
            /\ u.bs = bs
            /\ pc = "r_returned" => u.val = loc.n

\* C29: decode ends on every finite input.  For any finite byte sequence
\* given as the encoded file (valid, cut short or corrupt, with any header
\* fields) AudioCodec::decode and ImageCodec::decode eventually complete
\* or raise an error; the loop of Golomb::read_unary always ends, with a
\* one bit or with the end-of-stream sentinel.
DecodeTerminates ==
    /\ DecodeEntered ~> DecodeEnded
    /\ (pc = "r_unary") ~> (pc \in {"r_returned", "r_thrown"})

\* the decoder ran out of a file cut short and raised the error
DecodeTerminatesWitness ==
    /\ pc = "a_dec_failed"
    /\ err = "runtime_error"
    /\ infile.hdr = file.hdr
    /\ Len(file.bytes) > 0
    /\ Len(infile.bytes) < Len(file.bytes)

\* decode() completed on a made-up file of two bytes with a frame count
\* beyond the file
DecodeGarbageWitness ==
    /\ pc \in {"a_dec_failed", "i_dec_failed"}
    /\ file = NoFile
    /\ Len(infile.bytes) = MaxBytes
    /\ bs.eos
    /\ Len(marks.r) > 1

\* decode() completed on a made-up file
DecodeGarbageDoneWitness ==
    /\ pc = "i_done"
    /\ file = NoFile
    /\ infile.hdr.height = 3
    /\ infile.hdr.width = 2
    /\ infile.hdr.fixed_m = 1

\* read_unary met the end of a stream of zero bits
UnaryLoopEndWitness ==
    /\ pc = "r_thrown"
    /\ loc.n = 8 * MaxBytes
    /\ bs.eos

----------------------------------------------------------------------------
(* wav_quant_enc and wav_quant_dec (trabalho1/bit_stream/src): a WAV file  *)
(* is quantised to a bit stream and rebuilt from it with the same bits     *)

\* frames of the longest input
MaxQuantFrames == 2

\* unsigned step = 1u << (16 - bits)
QuantStep(bits) == Pow2(16 - bits)

\* short quantize(short sample, unsigned bits): (sample / step) * step in
\* unsigned arithmetic, converted back to short; 2^32 is a multiple of step,
\* so the unsigned quotient is the floor of sample / step modulo 2^32 / step
quantize(sample, bits) == Int16((sample \div QuantStep(bits)) * QuantStep(bits))

\* uint64_t packed = static_cast<uint16_t>(q) >> (16 - bits)
packed(q, bits) == UInt16(q) \div QuantStep(bits)

\* short dequantize(uint64_t qValue, unsigned bits)
dequantize(qValue, bits) == Int16(qValue * QuantStep(bits))

\* argv[2] of both programs
QuantBits == {0, 4, 8, 16}

QuantSamples == {0, 1, -1, 12345, -Pow2(15)}

\* the samples of the inputs, frame after frame
QuantInputs ==
    UNION {{[channels |-> ch, samplerate |-> 44100, samples |-> s] :
               s \in [1..(n * ch) -> QuantSamples]} :
              <<ch, n>> \in {1, 2} \X (0..MaxQuantFrames)}

InitQ ==
    /\ pc = "q_start"
    /\ err = "none"
    /\ g = NoGolomb
    /\ bs = NoStream
    /\ data \in QuantInputs
    /\ out = <<>>
    /\ call = NoCall
    /\ file = <<>>
    /\ marks = NoMarks
    /\ codec = NoCodec
    /\ hdr = NoHeader
    /\ loc = [bits |-> 0, i |-> 0]
    /\ infile = NoFile

\* wav_quant_enc in.wav bits out.bin up to the sample loop
\* (wav_quant_enc.cpp 15-50)
QEncodeOpen ==
    /\ pc = "q_start"
    /\ \E bits \in QuantBits :
          IF bits > 16 \/ bits = 0
          THEN /\ pc' = "q_failed"
               /\ err' = "usage"
               /\ UNCHANGED <<bs, loc>>
          ELSE /\ \E s4 \in {write_n_bits(
                                write_n_bits(
                                  write_n_bits(
                                    write_n_bits(BitStream(NewFile(<<>>), STREAM_WRITE),
                                                 bits, 8),
                                    data.channels, 8),
                                  data.samplerate, 32),
                                Len(data.samples) \div data.channels, 32)} : bs' = s4
               /\ loc' = [bits |-> bits, i |-> 0]
               /\ pc' = "q_encoding"
               /\ UNCHANGED err
    /\ UNCHANGED <<g, data, out, call, file, marks, codec, hdr, infile>>

\* one turn of for (auto &s : buffer) (wav_quant_enc.cpp 59-63)
QEncodeSample ==
    /\ pc = "q_encoding"
    /\ loc.i < Len(data.samples)
    /\ bs' = write_n_bits(bs, packed(quantize(data.samples[loc.i + 1], loc.bits),
                                     loc.bits), loc.bits)
    /\ marks' = [marks EXCEPT !.w = Append(@, BitsDone(bs))]
    /\ loc' = [loc EXCEPT !.i = @ + 1]
    /\ UNCHANGED <<pc, err, g, data, out, call, file, codec, hdr, infile>>

\* bs.close(); fs.close() (wav_quant_enc.cpp 66-67)
QEncodeClose ==
    /\ pc = "q_encoding"
    /\ loc.i = Len(data.samples)
    /\ bs' = close(bs)
    /\ file' = bs'.fs.bytes
    /\ pc' = "q_encoded"
    /\ UNCHANGED <<err, g, data, out, call, marks, codec, hdr, loc, infile>>

\* wav_quant_dec out.bin bits out.wav in.wav up to the sample loop, with the
\* bits of the encoder and the input as template (wav_quant_dec.cpp 14-57)
QDecodeOpen ==
    /\ pc = "q_encoded"
    /\ bs' = BitStream(NewFile(file), STREAM_READ)
    /\ loc' = [loc EXCEPT !.i = 0]
    /\ out' = <<>>
    /\ pc' = "q_decoding"
    /\ UNCHANGED <<err, g, data, call, file, marks, codec, hdr, infile>>

\* one turn of for (auto &s : buffer) (wav_quant_dec.cpp 63-66)
QDecodeSample ==
    /\ pc = "q_decoding"
    /\ loc.i < Len(data.samples)
    /\ \E rb \in {read_n_bits(bs, loc.bits)} :
          /\ bs' = rb.bs
          /\ out' = Append(out, dequantize(rb.val, loc.bits))
    /\ marks' = [marks EXCEPT !.r = Append(@, BitsDone(bs))]
    /\ loc' = [loc EXCEPT !.i = @ + 1]
    /\ UNCHANGED <<pc, err, g, data, call, file, codec, hdr, infile>>

\* bs.close(); fs.close() (wav_quant_dec.cpp 72-73)
QDecodeClose ==
    /\ pc = "q_decoding"
    /\ loc.i = Len(data.samples)
    /\ bs' = close(bs)
    /\ pc' = "q_done"
    /\ UNCHANGED <<err, g, data, out, call, file, marks, codec, hdr, loc, infile>>

NextQ ==
    \/ QEncodeOpen
    \/ QEncodeSample
    \/ QEncodeClose
    \/ QDecodeOpen
    \/ QDecodeSample
    \/ QDecodeClose

SpecQuant == InitQ /\ [][NextQ]_vars

\* the header of wav_quant_enc: bits and channels in 8 bits each, sample
\* rate and frame count in 32 bits each
QuantHeaderBits == 8 + 8 + 32 + 32

\* a 16-bit sample with its 16 - bits low-order bits cleared
LowBitsCleared(sample, bits) ==
    Int16(UInt16(sample) - (UInt16(sample) % QuantStep(bits)))

\* the file of wav_quant_enc: the header, then one field of bits bits per
\* sample holding the high-order bits of the sample
QuantEncoderLayout ==
    pc \in {"q_encoded", "q_decoding", "q_done"} =>
        /\ FileBits(file, 1, 8) = loc.bits
        /\ FileBits(file, 9, 16) = data.channels
        /\ FileBits(file, 17, 48) = data.samplerate
        /\ FileBits(file, 49, 80) = Len(data.samples) \div data.channels
        /\ Len(marks.w) = Len(data.samples)
        /\ \A k \in 1..Len(marks.w) :
              /\ marks.w[k] = QuantHeaderBits + (k - 1) * loc.bits
              /\ FileBits(file, marks.w[k] + 1, marks.w[k] + loc.bits) * QuantStep(loc.bits)
                    = UInt16(LowBitsCleared(data.samples[k], loc.bits))

\* C30: the first sample field that wav_quant_dec reads is the first one
\* that wav_quant_enc wrote: the decoder starts at the bit after the 80-bit
\* header (8-bit bits, 8-bit channels, 32-bit sample rate, 32-bit frame
\* count), so that decoding the encoder's output with the same bits gives
\* each input sample with its 16 - bits low-order bits cleared.
QuantFieldsAgree ==
    pc \in {"q_decoding", "q_done"} =>
        \A k \in 1..Len(marks.r) :
            /\ marks.r[k] = marks.w[k]
            /\ marks.r[k] = QuantHeaderBits + (k - 1) * loc.bits
            /\ out[k] = LowBitsCleared(data.samples[k], loc.bits)

=============================================================================
